---- MODULE Spec2Model ----
(***************************************************************************)
(* AuditFlow offline core: the Local Store (lib/db.js), the Upload Queue   *)
(* (lib/backgroundUpload.js, in its current and its earlier version), the  *)
(* Sync Engine (lib/sync.js) and the connectivity listeners, as one state  *)
(* machine.  JavaScript is single threaded: every step below is the code   *)
(* that runs between two awaits.  A Local Store operation is one step that *)
(* takes effect when its promise settles; the continuation of the awaiting *)
(* function runs in the same step.  SpecStore looks inside updateAudit,    *)
(* whose read and write are two transactions with an await between them.   *)
(***************************************************************************)
EXTENDS Naturals, Sequences, FiniteSets

\* ------------------------------------------------------------------ bounds
MaxAudits == 2
MaxCreated == 1
MaxPhotos == 3
MaxTasks == 3
MaxTimers == 1
MaxWorkers == 2
MaxRuns == 2
MaxCalls == 2
MaxClock == 2
MaxResult == 1
MaxAnswers == 1
MaxSweeps == 1
MaxTransfers == 2
MaxBackupCalls == 2
MaxFirings == 2

\* ------------------------------------------------------- program constants
MAX_RETRIES == 3
maxRetries == 3

Audits == 1..MaxAudits
Photos == 1..MaxPhotos
Tasks == 1..MaxTasks
Workers == 1..MaxWorkers
Runs == 1..MaxRuns
Calls == 1..MaxCalls
Times == 1..MaxClock
Results == 1..MaxResult
Answers == 1..MaxAnswers
Sweeps == 1..MaxSweeps
BackupCalls == 1..MaxBackupCalls

VARIABLES
    online,       \* navigator.onLine
    wasOffline,   \* backgroundUpload.js: let wasOffline
    sweepTimers,  \* pending setTimeout(retryAllPendingUploads, 2000) callbacks
    openAudit,    \* the audit whose execution/review page is mounted, 0 = none
    submitWait,   \* review page: the batch its handleSubmit awaits, 0 = none
    successShown, \* review page: submitResult.success && !submitResult.offline
    auditStatus,  \* audits store: id -> status ("absent" = no record)
    photo,        \* photos store: id -> [st, audit, blob, ref]
    uploadQueue,  \* backgroundUpload.js: let uploadQueue
    isUploading,  \* backgroundUpload.js: let isUploading
    wpc,          \* processQueue invocation -> where it is suspended
    cur,          \* processQueue invocation -> the entry it read from uploadQueue[0]
    promise,      \* task -> state of the promise queuePhotoUpload returned
    attempts,     \* task -> uploadPhotoToDrive calls made for it
    anyFailure,   \* some uploadPhotoToDrive call has thrown
    isSyncing,    \* sync.js: let isSyncing
    spc,          \* syncPendingAudits invocation -> where it is suspended
    pending,      \* invocation -> pendingAudits still to process, current first
    attempt,      \* invocation -> syncAuditWithRetry's attempt
    anySynced,    \* invocation -> results.synced > 0
    failed,       \* invocation -> results.failed
    results,      \* invocation -> results.synced and results.audits
    pendingAudits,\* invocation -> the array getPendingAudits() resolved
    delay,        \* invocation -> the backoff wait in progress, in ms (0 = none)
    payload,      \* invocation -> the photos list and skippedPhotos of its POST
    syncResult,   \* audit -> the record has a syncResult
    submitted,    \* audit -> "never" | "ok" | "again" (submit after a success)
    lastReturn,   \* what the last syncPendingAudits() call returned at once
    audits,       \* audits store, record by record: id -> the stored object
    calls,        \* db.js call in progress -> where it is suspended, what it holds
    sweeps,       \* retryAllPendingUploads invocation -> where it is suspended
    transfers,    \* photo -> files created for it in remote storage (Drive)
    backupTimer,  \* autoBackup.js: the interval handle last stored, 0 for null
    isBackingUp,  \* autoBackup.js: a saveBackup is between its guard and its finally
    saving,       \* the startAutoBackup call whose callback awaits saveBackup, or 0
    autoBackups   \* startAutoBackup call -> its timers and closure variables

storeVars == <<auditStatus, photo>>
queueVars == <<uploadQueue, isUploading, wpc, cur, promise, attempts, anyFailure>>
syncVars == <<isSyncing, spc, pending, attempt, anySynced, failed, results,
              pendingAudits, delay, payload,
              syncResult, submitted, lastReturn>>
pageVars == <<openAudit, submitWait, successShown>>
netVars == <<online, wasOffline, sweepTimers>>
vars == <<online, wasOffline, sweepTimers, openAudit, submitWait, successShown,
          auditStatus, photo, uploadQueue, isUploading, wpc, cur, promise, attempts,
          anyFailure, isSyncing, spc, pending, attempt, anySynced, failed, results,
          pendingAudits, delay,
          payload, syncResult, submitted, lastReturn, audits, calls, sweeps,
          transfers, backupTimer, isBackingUp, saving, autoBackups>>
dbVars == <<audits, calls>>
backupVars == <<backupTimer, isBackingUp, saving, autoBackups>>

\* A startAutoBackup call not made yet: no timer, backupFileId null.  initial is
\* the 30 s timeout, interval the 2 min interval; fired counts the callbacks of
\* the call's timers that have run, stopped tells that its stop function was
\* invoked.
NoAutoBackup == [initial |-> "none", interval |-> "none", backupFileId |-> 0,
                 fired |-> 0, stopped |-> FALSE]

\* ------------------------------------------------------------- Local Store
NoPhoto == [st |-> "absent", audit |-> 0, blob |-> FALSE, ref |-> FALSE]
NoTask == [id |-> 0, photo |-> 0, retryCount |-> 0]

\* getPhoto(id) resolves a record: the id was added and not deleted.
PhotoExists(p) == photo[p].st \notin {"absent", "deleted"}

\* getAudit(id) resolves a record.
AuditExists(a) == auditStatus[a] # "absent"

\* generateId(): a fresh id; ids of deleted photos are not reused.
FreePhotos == {p \in Photos : photo[p].st = "absent"}
NextPhotoId == CHOOSE p \in FreePhotos : \A q \in FreePhotos : p <= q

\* savePhoto: the record store.add writes.
savePhoto(a) ==
    [st |-> "pending_upload", audit |-> a, blob |-> TRUE, ref |-> FALSE]

\* An updatePhotoStatus that drops its metadata argument: {...photo, status}.
updatePhotoStatusNoMetadata(p, status, hasRef) ==
    [photo EXCEPT ![p] = [@ EXCEPT !.st = status]]

\* updatePhotoStatus(id, status, metadata): {...photo, status, ...metadata}.
updatePhotoStatus(p, status, hasRef) ==
    [photo EXCEPT ![p] = [@ EXCEPT !.st = status, !.ref = IF hasRef THEN TRUE ELSE @]]

\* A deletePhotoBlob that writes the record back with its blob.
deletePhotoBlobKeep(ph, p) == ph

\* deletePhotoBlob(id): {...photo, blob: null}; a missing record is left alone.
deletePhotoBlob(ph, p) ==
    IF ph[p].st \in {"absent", "deleted"} THEN ph
    ELSE [ph EXCEPT ![p] = [@ EXCEPT !.blob = FALSE]]

\* getAuditPhotos(auditId): the records of the auditId index, in key order.
getAuditPhotos(a) == {p \in Photos : PhotoExists(p) /\ photo[p].audit = a}

\* getPendingAudits(): getAll() filtered to status completed, in key order.
RECURSIVE AscSeq(_)
AscSeq(S) ==
    IF S = {} THEN <<>>
    ELSE LET m == CHOOSE x \in S : \A y \in S : x <= y
         IN <<m>> \o AscSeq(S \ {m})

getPendingAudits == AscSeq({a \in Audits : auditStatus[a] = "completed"})

\* --------------------------------------- Local Store, call by call (db.js)
\* An audits record: status, responses, syncResult, syncedAt, updatedAt; 0 stands
\* for a field that is not set.
NoAudit == [status |-> "absent", responses |-> 0, syncResult |-> 0,
            syncedAt |-> 0, updatedAt |-> 0]

NoUpdates == [status |-> "none"]

NoCall == [pc |-> "idle", fn |-> "none", id |-> 0, updates |-> NoUpdates,
           audit |-> NoAudit, updatedAudit |-> NoAudit,
           photos |-> <<>>, updatedPhoto |-> NoPhoto]

appVars == <<online, wasOffline, sweepTimers, openAudit, submitWait, successShown,
             auditStatus, photo, uploadQueue, isUploading, wpc, cur, promise,
             attempts, anyFailure, isSyncing, spc, pending, attempt, anySynced,
             failed, results, pendingAudits, delay, payload, syncResult, submitted,
             lastReturn, sweeps, transfers, backupTimer, isBackingUp, saving,
             autoBackups>>

\* { ...updates, ...audit }: the stored fields win.
MergeStoredWins(audit, updates) ==
    [f \in DOMAIN audit |->
        IF f \in DOMAIN updates /\ audit[f] = NoAudit[f] THEN updates[f] ELSE audit[f]]

\* { ...audit, ...updates }
Merge(audit, updates) ==
    [f \in DOMAIN audit |-> IF f \in DOMAIN updates THEN updates[f] ELSE audit[f]]

\* The updates objects of the callers: handleResponseChange, handleSubmit.
CallerUpdates ==
    {[status |-> "in_progress", responses |-> n] : n \in Answers}
        \cup {[status |-> "completed"]}

\* A slot holds a call that has not settled.
CallInProgress(c) == calls[c].pc \notin {"idle", "done", "threw"}

\* The call takes the first slot that holds no call in progress.
FirstFreeSlot(c) ==
    /\ ~CallInProgress(c)
    /\ \A d \in Calls : d < c => CallInProgress(d)

\* updateAudit(id, updates) is called: await initDB(), then getAudit(id) is pending.
CallUpdateAudit(c, fn, id, updates) ==
    /\ FirstFreeSlot(c)
    /\ calls' = [calls EXCEPT ![c] = [pc |-> "get", fn |-> fn, id |-> id,
                                      updates |-> updates, audit |-> NoAudit,
                                      updatedAudit |-> NoAudit,
                                      photos |-> <<>>, updatedPhoto |-> NoPhoto]]
    /\ UNCHANGED audits
    /\ UNCHANGED appVars

updateAuditCall(c, id, updates) == CallUpdateAudit(c, "updateAudit", id, updates)

\* markAuditSynced(id, syncResult): updateAudit(id, {status: 'synced', syncedAt:
\* new Date(), syncResult}).
markAuditSynced(c, id, r, now) ==
    CallUpdateAudit(c, "markAuditSynced", id,
                    [status |-> "synced", syncedAt |-> now, syncResult |-> r])

\* A check that lets a missing record through.
AuditNotFoundNever(audit) == FALSE

\* if (!audit), on request.result || null of store.get(id).
AuditNotFound(audit) == audit = NoAudit

\* const audit = await getAudit(id) settles: 'Audit not found' is thrown, or
\* updatedAudit = {...audit, ...updates, updatedAt: new Date()} is built and the
\* readwrite transaction with store.put(updatedAudit) is opened.
GetAudit(c, now) ==
    /\ calls[c].pc = "get"
    /\ IF AuditNotFound(audits[calls[c].id])
       THEN calls' = [calls EXCEPT ![c].pc = "threw", ![c].updates = NoUpdates]
       ELSE calls' = [calls EXCEPT
                         ![c].pc = "put",
                         ![c].audit = audits[calls[c].id],
                         ![c].updatedAudit =
                             [Merge(audits[calls[c].id], calls[c].updates)
                                 EXCEPT !.updatedAt = now]]
    /\ UNCHANGED audits
    /\ UNCHANGED appVars

\* request.onsuccess of store.put(updatedAudit): the record is replaced and the
\* call resolves with updatedAudit.
PutAudit(c) ==
    /\ calls[c].pc = "put"
    /\ audits' = [audits EXCEPT ![calls[c].id] = calls[c].updatedAudit]
    /\ calls' = [calls EXCEPT ![c].pc = "done", ![c].updates = NoUpdates]
    /\ UNCHANGED appVars

\* ---------------------------------------------------- cascade delete (db.js)
cascadeRest == <<online, wasOffline, sweepTimers, openAudit, submitWait,
                 successShown, uploadQueue, isUploading, wpc, cur, promise,
                 attempts, anyFailure, isSyncing, spc, pending, attempt,
                 anySynced, failed, results, pendingAudits, delay, payload,
                 syncResult, submitted, lastReturn, sweeps, transfers,
                 backupTimer, isBackingUp, saving, autoBackups>>

\* deleteAudit(id) is called: await initDB(), then deleteAuditPhotos(id) awaits
\* getAuditPhotos(id).
deleteAudit(c, id) ==
    /\ FirstFreeSlot(c)
    /\ calls' = [calls EXCEPT ![c] = [NoCall EXCEPT !.pc = "list",
                                                    !.fn = "deleteAudit",
                                                    !.id = id]]
    /\ UNCHANGED <<audits, auditStatus, photo>>
    /\ UNCHANGED cascadeRest

\* const photos = await getAuditPhotos(auditId) settles: the loop runs over the
\* records the index held at that moment.
deleteAuditPhotos(c) ==
    /\ calls[c].pc = "list"
    /\ calls' = [calls EXCEPT
                    ![c].photos = AscSeq(getAuditPhotos(calls[c].id)),
                    ![c].pc = IF getAuditPhotos(calls[c].id) = {}
                              THEN "delAudit" ELSE "delPhoto"]
    /\ UNCHANGED <<audits, auditStatus, photo>>
    /\ UNCHANGED cascadeRest

\* await deletePhoto(photo.id) settles: store.delete(photoId) removed the key
\* (a missing key is not an error); the loop moves to the next photo, and after
\* the last one deleteAudit opens its transaction on 'audits'.
deletePhoto(c) ==
    /\ calls[c].pc = "delPhoto"
    /\ LET p == Head(calls[c].photos) IN
         photo' = IF PhotoExists(p)
                  THEN [photo EXCEPT ![p] = [@ EXCEPT !.st = "deleted", !.blob = FALSE]]
                  ELSE photo
    /\ calls' = [calls EXCEPT
                    ![c].photos = Tail(@),
                    ![c].pc = IF Len(calls[c].photos) = 1
                              THEN "delAudit" ELSE "delPhoto"]
    /\ UNCHANGED <<audits, auditStatus>>
    /\ UNCHANGED cascadeRest

\* request.onsuccess of store.delete(id) on 'audits': deleteAudit resolves.
DeleteAuditRecord(c) ==
    /\ calls[c].pc = "delAudit"
    /\ audits' = [audits EXCEPT ![calls[c].id] = NoAudit]
    /\ auditStatus' = [auditStatus EXCEPT ![calls[c].id] = "absent"]
    /\ calls' = [calls EXCEPT ![c].pc = "done"]
    /\ UNCHANGED photo
    /\ UNCHANGED cascadeRest

\* savePhoto({auditId, ...}): one readwrite transaction with store.add(photo);
\* the audit record is not read.
SavePhoto(a) ==
    /\ FreePhotos # {}
    /\ photo' = [photo EXCEPT ![NextPhotoId] = savePhoto(a)]
    /\ UNCHANGED <<audits, auditStatus, calls>>
    /\ UNCHANGED cascadeRest

\* updatePhotoStatus(photoId, status, metadata) is called: await initDB(), then
\* getPhoto(photoId) is pending.
CallUpdatePhotoStatus(c, p, status) ==
    /\ FirstFreeSlot(c)
    /\ calls' = [calls EXCEPT ![c] = [NoCall EXCEPT !.pc = "getPhoto",
                                                    !.fn = "updatePhotoStatus",
                                                    !.id = p,
                                                    !.updates = [status |-> status]]]
    /\ UNCHANGED <<audits, auditStatus, photo>>
    /\ UNCHANGED cascadeRest

\* const photo = await getPhoto(photoId) settles: 'Photo not found' is thrown, or
\* updatedPhoto = {...photo, status, ...metadata} is built and the readwrite
\* transaction with store.put(updatedPhoto) is opened.
GetPhoto(c) ==
    /\ calls[c].pc = "getPhoto"
    /\ IF ~PhotoExists(calls[c].id)
       THEN calls' = [calls EXCEPT ![c].pc = "threw", ![c].updates = NoUpdates]
       ELSE calls' = [calls EXCEPT
                         ![c].pc = "putPhoto",
                         ![c].updates = NoUpdates,
                         ![c].updatedPhoto =
                             updatePhotoStatus(calls[c].id, calls[c].updates.status,
                                               FALSE)[calls[c].id]]
    /\ UNCHANGED <<audits, auditStatus, photo>>
    /\ UNCHANGED cascadeRest

\* request.onsuccess of store.put(updatedPhoto): the record is written under
\* its key, whether or not the key is still in the store.
PutPhoto(c) ==
    /\ calls[c].pc = "putPhoto"
    /\ photo' = [photo EXCEPT ![calls[c].id] = calls[c].updatedPhoto]
    /\ calls' = [calls EXCEPT ![c].pc = "done", ![c].updatedPhoto = NoPhoto]
    /\ UNCHANGED <<audits, auditStatus>>
    /\ UNCHANGED cascadeRest

\* -------------------------------------------------------------------- pages
\* The execution page of audit a is mounted, or is reached with router.back() from
\* the review page's form; the success view only leads to the dashboard.
OnExecutionPage(a) == openAudit = a /\ ~successShown

\* The review page, if it was mounted, is unmounted.
LeaveReview == submitWait' = 0 /\ successShown' = FALSE

\* ------------------------------------------------------------ Upload Queue
\* uploadQueue.push(entry)
QueuePush(q, t) == Append(q, t)

\* uploadQueue[0]: the entry the worker takes next.
QueueLast(q) == q[Len(q)]
QueueHead(q) == Head(q)

\* uploadQueue.shift(): removes the first entry; nothing on an empty array.
Shift(q) == IF q = <<>> THEN q ELSE Tail(q)

RECURSIVE PushAll(_, _)
PushAll(q, ts) == IF ts = <<>> THEN q ELSE PushAll(QueuePush(q, Head(ts)), Tail(ts))

FreeTasks == {t \in Tasks : promise[t] = "none"}
NextTask == CHOOSE t \in FreeTasks : \A u \in FreeTasks : t <= u

\* Entries that start at their last attempt.
NewTasksLastAttempt(ps) ==
    [i \in 1..Len(ps) |->
        [id |-> NextTask + i - 1, photo |-> ps[i], retryCount |-> MAX_RETRIES - 1]]

\* The entries queuePhotoUpload builds for the photos ps (retryCount defaults to 0).
NewTasks(ps) ==
    [i \in 1..Len(ps) |-> [id |-> NextTask + i - 1, photo |-> ps[i], retryCount |-> 0]]

\* if (retryCount < MAX_RETRIES - 1): the entry is tried again.
ShouldRetryOffByOne(retryCount) == retryCount < MAX_RETRIES
ShouldRetry(retryCount) == retryCount < MAX_RETRIES - 1

\* resolve(result) / reject(err) on the promise of task t; a promise settles once,
\* a second call is recorded as "twice".
Settle(pr, t, how) ==
    [pr EXCEPT ![t] = IF @ = "pending" THEN how ELSE "twice"]

\* if (isUploading) return: a processQueue call finds a run active.
WorkerBusyNever == FALSE
WorkerBusy == isUploading

IdleWorkers == {w \in Workers : wpc[w] = "idle"}
FreeWorker == CHOOSE w \in IdleWorkers : \A v \in IdleWorkers : w <= v

\* queuePhotoUpload(photo, ...) once per photo of ps, in order: push, then
\* processQueue(), which returns at once when a run is active and otherwise sets
\* isUploading, reads uploadQueue[0] and awaits updatePhotoStatus(UPLOADING).
queuePhotoUpload(ps) ==
    IF ps = <<>> THEN UNCHANGED queueVars
    ELSE /\ Cardinality(FreeTasks) >= Len(ps)
         /\ uploadQueue' = PushAll(uploadQueue, NewTasks(ps))
         /\ promise' = [t \in Tasks |->
                          IF t \in NextTask..(NextTask + Len(ps) - 1)
                          THEN "pending" ELSE promise[t]]
         /\ IF WorkerBusy \/ IdleWorkers = {}
            THEN UNCHANGED <<isUploading, wpc, cur>>
            ELSE /\ isUploading' = TRUE
                 /\ wpc' = [wpc EXCEPT ![FreeWorker] = "mark"]
                 /\ cur' = [cur EXCEPT ![FreeWorker] =
                              QueueHead(PushAll(uploadQueue, NewTasks(ps)))]
         /\ UNCHANGED <<attempts, anyFailure>>

\* while (uploadQueue.length > 0) { const {...} = uploadQueue[0]; ... } finally
\* { isUploading = false }: the next iteration over the queue q, or the end of the run.
LoopContinue(w, q) ==
    IF q = <<>>
    THEN /\ isUploading' = FALSE
         /\ wpc' = [wpc EXCEPT ![w] = "idle"]
         /\ cur' = [cur EXCEPT ![w] = NoTask]
    ELSE /\ isUploading' = isUploading
         /\ wpc' = [wpc EXCEPT ![w] = "mark"]
         /\ cur' = [cur EXCEPT ![w] = QueueHead(q)]

\* catch (err) of the loop body: re-queue at the tail with retryCount + 1 and await
\* updatePhotoStatus(PENDING), or await updatePhotoStatus(FAILED).
WorkerCatch(w) ==
    IF ShouldRetry(cur[w].retryCount)
    THEN /\ uploadQueue' = QueuePush(Shift(uploadQueue),
                                     [cur[w] EXCEPT !.retryCount = @ + 1])
         /\ wpc' = [wpc EXCEPT ![w] = "requeue"]
    ELSE /\ uploadQueue' = uploadQueue
         /\ wpc' = [wpc EXCEPT ![w] = "fail"]

\* An exception leaves processQueue: only the finally block runs.
WorkerEscape(w) ==
    /\ isUploading' = FALSE
    /\ wpc' = [wpc EXCEPT ![w] = "idle"]
    /\ cur' = [cur EXCEPT ![w] = NoTask]

\* await updatePhotoStatus(photo.id, UPLOADING, {retryCount}) settles.
UpdateStatusUploading(w) ==
    /\ wpc[w] = "mark"
    /\ IF PhotoExists(cur[w].photo)
       THEN /\ photo' = updatePhotoStatus(cur[w].photo, "uploading", FALSE)
            /\ wpc' = [wpc EXCEPT ![w] = "upload"]
            /\ UNCHANGED uploadQueue
       ELSE /\ WorkerCatch(w)
            /\ UNCHANGED photo
    /\ UNCHANGED <<isUploading, cur, promise, attempts, anyFailure>>
    /\ UNCHANGED auditStatus
    /\ UNCHANGED pageVars
    /\ UNCHANGED syncVars
    /\ UNCHANGED netVars
    /\ UNCHANGED dbVars
    /\ UNCHANGED transfers
    /\ UNCHANGED backupVars
    /\ UNCHANGED sweeps

\* await uploadPhotoToDrive(photo, auditId, driveResources) settles; the transfer
\* can succeed only while the device is online.
UploadPhotoToDrive(w, ok) ==
    /\ wpc[w] = "upload"
    /\ ok => online
    /\ ok => transfers[cur[w].photo] < MaxTransfers
    /\ transfers' = [transfers EXCEPT ![cur[w].photo] = IF ok THEN @ + 1 ELSE @]
    /\ UNCHANGED backupVars
    /\ attempts' = [attempts EXCEPT ![cur[w].id] = @ + 1]
    /\ IF ok
       THEN /\ wpc' = [wpc EXCEPT ![w] = "record"]
            /\ UNCHANGED <<uploadQueue, anyFailure>>
       ELSE /\ WorkerCatch(w)
            /\ anyFailure' = TRUE
    /\ UNCHANGED <<isUploading, cur, promise>>
    /\ UNCHANGED <<auditStatus, photo>>
    /\ UNCHANGED pageVars
    /\ UNCHANGED syncVars
    /\ UNCHANGED netVars
    /\ UNCHANGED dbVars
    /\ UNCHANGED sweeps

\* await updatePhotoStatus(photo.id, UPLOADED, {driveFileId, ...}) settles; then
\* resolve(result) and uploadQueue.shift().
UpdateStatusUploaded(w) ==
    /\ wpc[w] = "record"
    /\ IF PhotoExists(cur[w].photo)
       THEN /\ photo' = updatePhotoStatus(cur[w].photo, "uploaded", TRUE)
            /\ promise' = Settle(promise, cur[w].id, "resolved")
            /\ uploadQueue' = Shift(uploadQueue)
            /\ LoopContinue(w, Shift(uploadQueue))
       ELSE /\ WorkerCatch(w)
            /\ UNCHANGED <<photo, promise, isUploading, cur>>
    /\ UNCHANGED <<attempts, anyFailure>>
    /\ UNCHANGED auditStatus
    /\ UNCHANGED pageVars
    /\ UNCHANGED syncVars
    /\ UNCHANGED netVars
    /\ UNCHANGED dbVars
    /\ UNCHANGED transfers
    /\ UNCHANGED backupVars
    /\ UNCHANGED sweeps

\* await updatePhotoStatus(photo.id, PENDING, {retryCount + 1, lastError}) settles;
\* a rejection (photo not found) is thrown from inside the catch block.
UpdateStatusPending(w) ==
    /\ wpc[w] = "requeue"
    /\ IF PhotoExists(cur[w].photo)
       THEN /\ photo' = updatePhotoStatus(cur[w].photo, "pending_upload", FALSE)
            /\ wpc' = [wpc EXCEPT ![w] = "delay"]
            /\ UNCHANGED <<isUploading, cur>>
       ELSE /\ WorkerEscape(w)
            /\ UNCHANGED photo
    /\ UNCHANGED <<uploadQueue, promise, attempts, anyFailure>>
    /\ UNCHANGED auditStatus
    /\ UNCHANGED pageVars
    /\ UNCHANGED syncVars
    /\ UNCHANGED netVars
    /\ UNCHANGED dbVars
    /\ UNCHANGED transfers
    /\ UNCHANGED backupVars
    /\ UNCHANGED sweeps

\* await new Promise(r => setTimeout(r, RETRY_DELAY_MS)) settles; continue.
RetryDelay(w) ==
    /\ wpc[w] = "delay"
    /\ LoopContinue(w, uploadQueue)
    /\ UNCHANGED <<uploadQueue, promise, attempts, anyFailure>>
    /\ UNCHANGED <<auditStatus, photo>>
    /\ UNCHANGED pageVars
    /\ UNCHANGED syncVars
    /\ UNCHANGED netVars
    /\ UNCHANGED dbVars
    /\ UNCHANGED transfers
    /\ UNCHANGED backupVars
    /\ UNCHANGED sweeps

\* await updatePhotoStatus(photo.id, FAILED, {...}) settles; then reject(err) and
\* uploadQueue.shift().  A rejection is thrown from inside the catch block.
UpdateStatusFailed(w) ==
    /\ wpc[w] = "fail"
    /\ IF PhotoExists(cur[w].photo)
       THEN /\ photo' = updatePhotoStatus(cur[w].photo, "failed", FALSE)
            /\ promise' = Settle(promise, cur[w].id, "rejected")
            /\ uploadQueue' = Shift(uploadQueue)
            /\ LoopContinue(w, Shift(uploadQueue))
       ELSE /\ WorkerEscape(w)
            /\ UNCHANGED <<photo, promise, uploadQueue>>
    /\ UNCHANGED <<attempts, anyFailure>>
    /\ UNCHANGED auditStatus
    /\ UNCHANGED pageVars
    /\ UNCHANGED syncVars
    /\ UNCHANGED netVars
    /\ UNCHANGED dbVars
    /\ UNCHANGED transfers
    /\ UNCHANGED backupVars
    /\ UNCHANGED sweeps

\* retryFailedUploads(auditId): every failed photo of the audit that still has its
\* blob is compressed and queued again; it returns 0 when the audit is not found.
FailedWithData(a) ==
    {p \in getAuditPhotos(a) : photo[p].st = "failed" /\ photo[p].blob}

retryFailedUploads(a) ==
    /\ OnExecutionPage(a)
    /\ AuditExists(a)
    /\ FailedWithData(a) # {}
    /\ queuePhotoUpload(AscSeq(FailedWithData(a)))
    /\ LeaveReview
    /\ UNCHANGED <<auditStatus, photo, openAudit>>
    /\ UNCHANGED syncVars
    /\ UNCHANGED netVars
    /\ UNCHANGED dbVars
    /\ UNCHANGED transfers
    /\ UNCHANGED backupVars
    /\ UNCHANGED sweeps

\* A sweep that looks at the first audit of the store only.
PendingPhotosFirstAudit ==
    {p \in Photos : /\ PhotoExists(p)
                    /\ photo[p].audit = 1
                    /\ auditStatus[1] # "synced"
                    /\ photo[p].st \in {"pending_upload", "failed"}
                    /\ photo[p].blob}

\* retryAllPendingUploads(): over getAllAudits(), skipping synced audits, the photos
\* in status pending_upload or failed that still have a blob, queued in store order.
PendingPhotos ==
    {p \in Photos : /\ PhotoExists(p)
                    /\ AuditExists(photo[p].audit)
                    /\ auditStatus[photo[p].audit] # "synced"
                    /\ photo[p].st \in {"pending_upload", "failed"}
                    /\ photo[p].blob}

\* Photos in the order the sweep meets them: audits in key order, then photo keys.
RECURSIVE SweepOrder(_)
SweepOrder(as) ==
    IF as = <<>> THEN <<>>
    ELSE AscSeq({p \in PendingPhotos : photo[p].audit = Head(as)}) \o SweepOrder(Tail(as))

\* setTimeout(() => { retryAllPendingUploads(); }, 2000) fires.
retryAllPendingUploads ==
    /\ sweepTimers > 0
    /\ sweepTimers' = sweepTimers - 1
    /\ queuePhotoUpload(SweepOrder(AscSeq(Audits)))
    /\ UNCHANGED <<online, wasOffline>>
    /\ UNCHANGED <<auditStatus, photo>>
    /\ UNCHANGED pageVars
    /\ UNCHANGED syncVars
    /\ UNCHANGED dbVars
    /\ UNCHANGED transfers
    /\ UNCHANGED backupVars
    /\ UNCHANGED sweeps

\* ------------------------------ retryAllPendingUploads, await by await
\* The sweep as the callbacks it is made of: other callbacks (the worker, the
\* pages, the connectivity events) run between its awaits.
NoSweep == [pc |-> "idle", audits |-> <<>>, audit |-> 0, pendingPhotos |-> <<>>,
            totalRetried |-> 0, ret |-> 0]

\* getAllAudits(): the stored records, in key order.
RECURSIVE AllAudits(_)
AllAudits(as) ==
    IF as = <<>> THEN <<>>
    ELSE (IF AuditExists(Head(as))
          THEN <<[id |-> Head(as), status |-> auditStatus[Head(as)]]>>
          ELSE <<>>) \o AllAudits(Tail(as))

getAllAudits == AllAudits(AscSeq(Audits))

\* if (audit.status === 'synced') continue, on the records getAllAudits resolved.
RECURSIVE SkipSynced(_)
SkipSynced(as) ==
    IF as = <<>> THEN <<>>
    ELSE IF Head(as).status = "synced" THEN SkipSynced(Tail(as)) ELSE as

\* photos.filter(p => (p.status === PENDING || p.status === FAILED) && p.blob) on
\* what getPhotosByAudit(audit.id) resolved.
PendingPhotosOf(a) ==
    {p \in Photos : /\ PhotoExists(p)
                    /\ photo[p].audit = a
                    /\ photo[p].st \in {"pending_upload", "failed"}
                    /\ photo[p].blob}

\* for (const audit of audits): the next audit that is not synced in the records
\* as, and await getPhotosByAudit(audit.id); after the last, return totalRetried.
SweepNextAudit(s, as, total) ==
    sweeps' = [sweeps EXCEPT
                 ![s] = IF SkipSynced(as) = <<>>
                        THEN [NoSweep EXCEPT !.ret = total]
                        ELSE [pc |-> "photos",
                              audits |-> Tail(SkipSynced(as)),
                              audit |-> Head(SkipSynced(as)).id,
                              pendingPhotos |-> <<>>,
                              totalRetried |-> total,
                              ret |-> @.ret]]

IdleSweeps == {s \in Sweeps : sweeps[s].pc = "idle"}

\* setTimeout(() => { retryAllPendingUploads(); }, 2000) fires: await import('./db')
\* and await getAllAudits().
StartSweep(s) ==
    /\ sweepTimers > 0
    /\ s \in IdleSweeps /\ \A t \in IdleSweeps : s <= t
    /\ sweepTimers' = sweepTimers - 1
    /\ sweeps' = [sweeps EXCEPT ![s] = [NoSweep EXCEPT !.pc = "audits"]]
    /\ UNCHANGED <<online, wasOffline>>
    /\ UNCHANGED <<auditStatus, photo>>
    /\ UNCHANGED pageVars
    /\ UNCHANGED queueVars
    /\ UNCHANGED syncVars
    /\ UNCHANGED dbVars
    /\ UNCHANGED transfers
    /\ UNCHANGED backupVars

\* const audits = await getAllAudits() settles; let totalRetried = 0.
SweepGetAllAudits(s) ==
    /\ sweeps[s].pc = "audits"
    /\ SweepNextAudit(s, getAllAudits, 0)
    /\ UNCHANGED <<auditStatus, photo>>
    /\ UNCHANGED pageVars
    /\ UNCHANGED queueVars
    /\ UNCHANGED syncVars
    /\ UNCHANGED netVars
    /\ UNCHANGED dbVars
    /\ UNCHANGED transfers
    /\ UNCHANGED backupVars

\* const photos = await getPhotosByAudit(audit.id) settles; pendingPhotos is
\* filtered from it and compressImage is awaited for its first photo.
SweepGetPhotos(s) ==
    /\ sweeps[s].pc = "photos"
    /\ IF PendingPhotosOf(sweeps[s].audit) = {}
       THEN SweepNextAudit(s, sweeps[s].audits, sweeps[s].totalRetried)
       ELSE sweeps' = [sweeps EXCEPT
                         ![s].pc = "compress",
                         ![s].pendingPhotos = AscSeq(PendingPhotosOf(sweeps[s].audit))]
    /\ UNCHANGED <<auditStatus, photo>>
    /\ UNCHANGED pageVars
    /\ UNCHANGED queueVars
    /\ UNCHANGED syncVars
    /\ UNCHANGED netVars
    /\ UNCHANGED dbVars
    /\ UNCHANGED transfers
    /\ UNCHANGED backupVars

\* await compressImage(photo.blob) settles: queuePhotoUpload({...photo, base64},
\* ...) and totalRetried++, or the catch that skips the photo; then the next photo,
\* the next audit, or return totalRetried.
SweepCompress(s, ok) ==
    /\ sweeps[s].pc = "compress"
    /\ IF ok THEN queuePhotoUpload(<<Head(sweeps[s].pendingPhotos)>>)
       ELSE UNCHANGED queueVars
    /\ LET total == sweeps[s].totalRetried + (IF ok THEN 1 ELSE 0) IN
         IF Tail(sweeps[s].pendingPhotos) = <<>>
         THEN SweepNextAudit(s, sweeps[s].audits, total)
         ELSE sweeps' = [sweeps EXCEPT ![s].pendingPhotos = Tail(@),
                                       ![s].totalRetried = total]
    /\ UNCHANGED <<auditStatus, photo>>
    /\ UNCHANGED pageVars
    /\ UNCHANGED syncVars
    /\ UNCHANGED netVars
    /\ UNCHANGED dbVars
    /\ UNCHANGED transfers
    /\ UNCHANGED backupVars

SweepStepNext ==
    \/ \E s \in Sweeps : StartSweep(s)
    \/ \E s \in Sweeps : SweepGetAllAudits(s)
    \/ \E s \in Sweeps : SweepGetPhotos(s)
    \/ \E s \in Sweeps, ok \in BOOLEAN : SweepCompress(s, ok)

\* ------------------------------------- Upload Queue, lib/backgroundUpload.js
\* processQueue of lib/backgroundUpload.js: no retry, the blob is deleted right
\* after the upload, and isUploading is reset after the loop, not in a finally.
\* catch (err): await updatePhotoStatus(photo.id, FAILED, ...).
LegacyCatch(w) == wpc' = [wpc EXCEPT ![w] = "fail"]

\* await updatePhotoStatus(photo.id, UPLOADING) settles.
LegacyUpdateStatusUploading(w) ==
    /\ wpc[w] = "mark"
    /\ IF PhotoExists(cur[w].photo)
       THEN /\ photo' = updatePhotoStatus(cur[w].photo, "uploading", FALSE)
            /\ wpc' = [wpc EXCEPT ![w] = "upload"]
       ELSE /\ LegacyCatch(w)
            /\ UNCHANGED photo
    /\ UNCHANGED <<uploadQueue, isUploading, cur, promise, attempts, anyFailure>>
    /\ UNCHANGED auditStatus
    /\ UNCHANGED pageVars
    /\ UNCHANGED syncVars
    /\ UNCHANGED netVars
    /\ UNCHANGED dbVars
    /\ UNCHANGED transfers
    /\ UNCHANGED backupVars
    /\ UNCHANGED sweeps

\* await uploadPhotoToDrive(photo, auditId, driveResources) settles.
LegacyUploadPhotoToDrive(w, ok) ==
    /\ wpc[w] = "upload"
    /\ ok => online
    /\ ok => transfers[cur[w].photo] < MaxTransfers
    /\ transfers' = [transfers EXCEPT ![cur[w].photo] = IF ok THEN @ + 1 ELSE @]
    /\ UNCHANGED backupVars
    /\ attempts' = [attempts EXCEPT ![cur[w].id] = @ + 1]
    /\ IF ok
       THEN /\ wpc' = [wpc EXCEPT ![w] = "record"]
            /\ UNCHANGED anyFailure
       ELSE /\ LegacyCatch(w)
            /\ anyFailure' = TRUE
    /\ UNCHANGED <<uploadQueue, isUploading, cur, promise>>
    /\ UNCHANGED <<auditStatus, photo>>
    /\ UNCHANGED pageVars
    /\ UNCHANGED syncVars
    /\ UNCHANGED netVars
    /\ UNCHANGED dbVars
    /\ UNCHANGED sweeps

\* await updatePhotoStatus(photo.id, UPLOADED, {driveFileId, ...}) settles.
LegacyUpdateStatusUploaded(w) ==
    /\ wpc[w] = "record"
    /\ IF PhotoExists(cur[w].photo)
       THEN /\ photo' = updatePhotoStatus(cur[w].photo, "uploaded", TRUE)
            /\ wpc' = [wpc EXCEPT ![w] = "purge"]
       ELSE /\ LegacyCatch(w)
            /\ UNCHANGED photo
    /\ UNCHANGED <<uploadQueue, isUploading, cur, promise, attempts, anyFailure>>
    /\ UNCHANGED auditStatus
    /\ UNCHANGED pageVars
    /\ UNCHANGED syncVars
    /\ UNCHANGED netVars
    /\ UNCHANGED dbVars
    /\ UNCHANGED transfers
    /\ UNCHANGED backupVars
    /\ UNCHANGED sweeps

\* await deletePhotoBlob(photo.id) settles; then resolve(result) and
\* uploadQueue.shift().
LegacyDeletePhotoBlob(w) ==
    /\ wpc[w] = "purge"
    /\ photo' = deletePhotoBlob(photo, cur[w].photo)
    /\ promise' = Settle(promise, cur[w].id, "resolved")
    /\ uploadQueue' = Shift(uploadQueue)
    /\ LoopContinue(w, Shift(uploadQueue))
    /\ UNCHANGED <<attempts, anyFailure>>
    /\ UNCHANGED auditStatus
    /\ UNCHANGED pageVars
    /\ UNCHANGED syncVars
    /\ UNCHANGED netVars
    /\ UNCHANGED dbVars
    /\ UNCHANGED transfers
    /\ UNCHANGED backupVars
    /\ UNCHANGED sweeps

\* await updatePhotoStatus(photo.id, FAILED, ...) settles; then reject(err) and
\* uploadQueue.shift().  A rejection leaves processQueue with isUploading set.
LegacyUpdateStatusFailed(w) ==
    /\ wpc[w] = "fail"
    /\ IF PhotoExists(cur[w].photo)
       THEN /\ photo' = updatePhotoStatus(cur[w].photo, "failed", FALSE)
            /\ promise' = Settle(promise, cur[w].id, "rejected")
            /\ uploadQueue' = Shift(uploadQueue)
            /\ LoopContinue(w, Shift(uploadQueue))
       ELSE /\ wpc' = [wpc EXCEPT ![w] = "idle"]
            /\ cur' = [cur EXCEPT ![w] = NoTask]
            /\ UNCHANGED <<photo, promise, uploadQueue, isUploading>>
    /\ UNCHANGED <<attempts, anyFailure>>
    /\ UNCHANGED auditStatus
    /\ UNCHANGED pageVars
    /\ UNCHANGED syncVars
    /\ UNCHANGED netVars
    /\ UNCHANGED dbVars
    /\ UNCHANGED transfers
    /\ UNCHANGED backupVars
    /\ UNCHANGED sweeps

\* -------------------------------------------------------------- Sync Engine
\* if (isSyncing) return { synced: 0, failed: 0 }
SyncBusyNever == FALSE
SyncBusy == isSyncing

\* isOnline(): navigator.onLine, given the connectivity on at the call.
isOnlineAlways(on) == TRUE
isOnline(on) == on

IdleRuns == {r \in Runs : spc[r] = "idle"}
FreeRun == CHOOSE r \in IdleRuns : \A q \in IdleRuns : r <= q

\* What a syncPendingAudits() call returned before its first await.
Returned(ret, on) == [ret |-> ret, online |-> on, busy |-> isSyncing]

\* The call passes both early returns.
SyncStarts(on) == ~(SyncBusy \/ IdleRuns = {}) /\ isOnline(on)

\* The per-invocation state of syncPendingAudits / syncAuditWithRetry.
runVars == <<isSyncing, spc, pending, attempt, anySynced, failed, results,
             pendingAudits, delay, payload>>

\* No payload is being built or sent.
NoPayload == [photos |-> <<>>, skipped |-> 0]

\* const results = { synced: 0, failed: 0, audits: [] }; failed holds
\* results.failed.
NoResults == [synced |-> 0, audits |-> <<>>]

\* if (result.success) results.synced++; results.audits.push({ id: audit.id,
\* ...result }), for the outcome res of audit a; "none": no audit was processed.
PushResult(res0, a, res) ==
    IF res = "none" THEN res0
    ELSE [synced |-> res0.synced + (IF res = "synced" THEN 1 ELSE 0),
          audits |-> Append(res0.audits, [id |-> a, success |-> res = "synced"])]

\* syncPendingAudits() up to its first await, called with connectivity on: the two
\* early returns, else isSyncing = true, results = {synced: 0, failed: 0, ...} and
\* await getPendingAudits().
SyncCall(on) ==
    IF SyncBusy \/ IdleRuns = {}
    THEN /\ lastReturn' = Returned("busy", on)
         /\ UNCHANGED runVars
         /\ UNCHANGED <<syncResult, submitted>>
    ELSE IF ~isOnline(on)
    THEN /\ lastReturn' = Returned("offline", on)
         /\ UNCHANGED runVars
         /\ UNCHANGED <<syncResult, submitted>>
    ELSE /\ lastReturn' = Returned("started", on)
         /\ isSyncing' = TRUE
         /\ spc' = [spc EXCEPT ![FreeRun] = "fetch"]
         /\ anySynced' = [anySynced EXCEPT ![FreeRun] = FALSE]
         /\ failed' = [failed EXCEPT ![FreeRun] = 0]
         /\ results' = [results EXCEPT ![FreeRun] = NoResults]
         /\ pendingAudits' = [pendingAudits EXCEPT ![FreeRun] = <<>>]
         /\ UNCHANGED <<pending, attempt, delay, payload>>
         /\ UNCHANGED <<syncResult, submitted>>

\* for (const audit of pendingAudits): the audits left after the current one, res
\* the outcome syncAuditWithRetry returned for the current one ("synced": 
\* results.synced++, "failed": results.failed++, "none": the batch only begins);
\* after the last, sync_batch_complete, finally { isSyncing = false }, and the
\* results go to the handleSubmit awaiting them: setSubmitResult({success: true,
\* ...}) if (result.synced > 0).
NextAudit(r, rest, res) ==
    /\ pending' = [pending EXCEPT ![r] = rest]
    /\ attempt' = [attempt EXCEPT ![r] = 1]
    /\ anySynced' = [anySynced EXCEPT ![r] = @ \/ res = "synced"]
    /\ failed' = [failed EXCEPT ![r] = IF res = "failed" THEN @ + 1 ELSE @]
    /\ results' = [results EXCEPT ![r] = PushResult(@, Head(pending[r]), res)]
    /\ pendingAudits' = [pendingAudits EXCEPT
                            ![r] = IF res = "none" THEN rest
                                   ELSE IF rest = <<>> THEN <<>> ELSE @]
    /\ delay' = [delay EXCEPT ![r] = 0]
    /\ payload' = [payload EXCEPT ![r] = NoPayload]
    /\ IF rest = <<>>
       THEN /\ isSyncing' = FALSE
            /\ spc' = [spc EXCEPT ![r] = "idle"]
            /\ IF submitWait = r
               THEN /\ submitWait' = 0
                    /\ successShown' = (anySynced[r] \/ res = "synced")
               ELSE UNCHANGED <<submitWait, successShown>>
       ELSE /\ isSyncing' = isSyncing
            /\ spc' = [spc EXCEPT ![r] = "photos"]
            /\ UNCHANGED <<submitWait, successShown>>

\* A catch that never retries.
ShouldBackoffNever(k) == FALSE

\* if (attempt < maxRetries): another attempt follows the failed one.
ShouldBackoffOneLess(k) == k < maxRetries - 1
ShouldBackoff(k) == k < maxRetries

\* const delay = Math.pow(2, attempt) * 1000, in milliseconds.
BackoffDelayFromOne(k) == (2 ^ (k - 1)) * 1000
BackoffDelay(k) == (2 ^ k) * 1000

\* A catch whose final failure ends the batch instead of moving to the next audit.
SyncCatchEndsBatch(r) ==
    IF ShouldBackoff(attempt[r])
    THEN /\ spc' = [spc EXCEPT ![r] = "backoff"]
         /\ delay' = [delay EXCEPT ![r] = BackoffDelay(attempt[r])]
         /\ UNCHANGED <<isSyncing, pending, attempt, anySynced, failed, results,
                        pendingAudits, payload>>
         /\ UNCHANGED <<submitWait, successShown>>
    ELSE NextAudit(r, <<>>, "failed")

\* catch (err) in syncAuditWithRetry: back off while attempt < maxRetries, else
\* sync_error and { success: false } to the batch loop.
SyncCatch(r) ==
    IF ShouldBackoff(attempt[r])
    THEN /\ spc' = [spc EXCEPT ![r] = "backoff"]
         /\ delay' = [delay EXCEPT ![r] = BackoffDelay(attempt[r])]
         /\ UNCHANGED <<isSyncing, pending, attempt, anySynced, failed, results,
                        pendingAudits, payload>>
         /\ UNCHANGED <<submitWait, successShown>>
    ELSE NextAudit(r, Tail(pending[r]), "failed")

\* await getPendingAudits() settles.
FetchPending(r) ==
    /\ spc[r] = "fetch"
    /\ NextAudit(r, getPendingAudits, "none")
    /\ UNCHANGED <<syncResult, submitted, lastReturn>>
    /\ UNCHANGED <<auditStatus, photo, openAudit>>
    /\ UNCHANGED queueVars
    /\ UNCHANGED netVars
    /\ UNCHANGED dbVars
    /\ UNCHANGED transfers
    /\ UNCHANGED backupVars
    /\ UNCHANGED sweeps

\* A rejection that leaves through no finally block: the flag stays set.
GetPendingAuditsThrowsNoFinally(r) ==
    /\ spc[r] = "fetch"
    /\ spc' = [spc EXCEPT ![r] = "idle"]
    /\ isSyncing' = isSyncing
    /\ lastReturn' = [ret |-> "threw", online |-> TRUE, busy |-> FALSE]
    /\ submitWait' = IF submitWait = r THEN 0 ELSE submitWait
    /\ UNCHANGED <<pending, attempt, anySynced, failed, results, pendingAudits,
                   delay, payload>>
    /\ UNCHANGED <<syncResult, submitted, successShown>>
    /\ UNCHANGED <<auditStatus, photo, openAudit>>
    /\ UNCHANGED queueVars
    /\ UNCHANGED netVars
    /\ UNCHANGED dbVars
    /\ UNCHANGED transfers
    /\ UNCHANGED backupVars
    /\ UNCHANGED sweeps

\* await getPendingAudits() rejects (request.onerror of getAllAudits): the
\* exception leaves the try block, finally { isSyncing = false } runs and the
\* promise of the call rejects; a handleSubmit awaiting it goes to its catch
\* (success: false).  lastReturn keeps that the started call threw.
GetPendingAuditsThrows(r) ==
    /\ spc[r] = "fetch"
    /\ spc' = [spc EXCEPT ![r] = "idle"]
    /\ isSyncing' = FALSE
    /\ lastReturn' = [ret |-> "threw", online |-> TRUE, busy |-> FALSE]
    /\ submitWait' = IF submitWait = r THEN 0 ELSE submitWait
    /\ UNCHANGED <<pending, attempt, anySynced, failed, results, pendingAudits,
                   delay, payload>>
    /\ UNCHANGED <<syncResult, submitted, successShown>>
    /\ UNCHANGED <<auditStatus, photo, openAudit>>
    /\ UNCHANGED queueVars
    /\ UNCHANGED netVars
    /\ UNCHANGED dbVars
    /\ UNCHANGED transfers
    /\ UNCHANGED backupVars
    /\ UNCHANGED sweeps

\* JSON null: the value submitAudit's photos.map returns for a photo it skips.
Null == 0

\* The entry photos.map builds for photo p, direct telling whether uploadBlobToDrive
\* succeeds for it: the Drive reference of an uploaded photo, else the reference a
\* direct upload of the blob returns, else null.
PhotoEntry(p, direct) ==
    IF photo[p].st = "uploaded" /\ photo[p].ref THEN p
    ELSE IF photo[p].blob THEN (IF direct THEN p ELSE Null)
    ELSE Null

\* skippedPhotos++ runs exactly where photos.map returns null.
RECURSIVE CountNull(_)
CountNull(q) ==
    IF q = <<>> THEN 0
    ELSE (IF Head(q) = Null THEN 1 ELSE 0) + CountNull(Tail(q))

\* photoData = await Promise.all(photos.map(...)), sent as photos: photoData.
PhotoData(ps, ok) == [i \in 1..Len(ps) |-> PhotoEntry(ps[i], ps[i] \in ok)]

\* The photos a direct upload is tried for.
NeedDirect(a) ==
    {p \in getAuditPhotos(a) : ~(photo[p].st = "uploaded" /\ photo[p].ref) /\ photo[p].blob}

\* await getAuditPhotos(audit.id) settles and submitAudit(audit, photos) builds
\* photoData; ok are the photos whose direct upload succeeds (none while offline).
\* Then the POST is sent.
GetPhotos(r, ok) ==
    /\ spc[r] = "photos"
    /\ ok \subseteq NeedDirect(Head(pending[r]))
    /\ ~online => ok = {}
    /\ \A p \in ok : transfers[p] < MaxTransfers
    /\ transfers' = [p \in Photos |-> IF p \in ok THEN transfers[p] + 1 ELSE transfers[p]]
    /\ UNCHANGED backupVars
    /\ spc' = [spc EXCEPT ![r] = "submit"]
    /\ payload' = [payload EXCEPT ![r] =
          [photos |-> PhotoData(AscSeq(getAuditPhotos(Head(pending[r]))), ok),
           skipped |-> CountNull(PhotoData(AscSeq(getAuditPhotos(Head(pending[r]))), ok))]]
    /\ UNCHANGED <<isSyncing, pending, attempt, anySynced, failed, results,
                        pendingAudits, delay>>
    /\ UNCHANGED <<syncResult, submitted, lastReturn>>
    /\ UNCHANGED <<auditStatus, photo>>
    /\ UNCHANGED pageVars
    /\ UNCHANGED queueVars
    /\ UNCHANGED netVars
    /\ UNCHANGED dbVars
    /\ UNCHANGED sweeps

\* A route that takes a null entry for an item without photo.
ServerAcceptsNull(photos) == TRUE

\* POST /api/audit/submit: photos.map(p => p.itemId) throws on a null entry and the
\* route answers 500.
ServerAccepts(photos) == \A i \in 1..Len(photos) : photos[i] # Null

\* if (!response.ok) throw new Error(...): submitAudit throws unless the POST succeeded.
SubmitThrowsNever(ok) == FALSE
SubmitThrows(ok) == ~ok

\* The POST to /api/audit/submit settles; it can succeed only while online and
\* with a body the route accepts.  if (!response.ok) throw.
SubmitAudit(r, ok) ==
    /\ spc[r] = "submit"
    /\ ok => online /\ ServerAccepts(payload[r].photos)
    /\ submitted' = [submitted EXCEPT ![Head(pending[r])] =
                       IF @ = "never" THEN (IF ok THEN "ok" ELSE "never") ELSE "again"]
    /\ IF ~SubmitThrows(ok)
       THEN /\ spc' = [spc EXCEPT ![r] = "mark"]
            /\ UNCHANGED <<isSyncing, pending, attempt, anySynced, failed, results,
                        pendingAudits, delay, payload>>
            /\ UNCHANGED <<submitWait, successShown>>
       ELSE SyncCatch(r)
    /\ UNCHANGED <<syncResult, lastReturn>>
    /\ UNCHANGED <<auditStatus, photo, openAudit>>
    /\ UNCHANGED queueVars
    /\ UNCHANGED netVars
    /\ UNCHANGED dbVars
    /\ UNCHANGED transfers
    /\ UNCHANGED backupVars
    /\ UNCHANGED sweeps

\* updateAudit(id, updates): {...audit, ...updates} is put.
updateAudit(a, status) == [auditStatus EXCEPT ![a] = status]

\* await markAuditSynced(audit.id, result) settles: status 'synced' and syncResult
\* are written ('Audit not found' is caught by the retry loop).
MarkAuditSynced(r) ==
    /\ spc[r] = "mark"
    /\ IF AuditExists(Head(pending[r]))
       THEN /\ auditStatus' = updateAudit(Head(pending[r]), "synced")
            /\ syncResult' = [syncResult EXCEPT ![Head(pending[r])] = TRUE]
            /\ spc' = [spc EXCEPT ![r] = "cleanup"]
            /\ UNCHANGED <<isSyncing, pending, attempt, anySynced, failed, results,
                        pendingAudits, delay, payload>>
            /\ UNCHANGED <<submitWait, successShown>>
       ELSE /\ SyncCatch(r)
            /\ UNCHANGED <<auditStatus, syncResult>>
    /\ UNCHANGED <<submitted, lastReturn>>
    /\ UNCHANGED <<photo, openAudit>>
    /\ UNCHANGED queueVars
    /\ UNCHANGED netVars
    /\ UNCHANGED dbVars
    /\ UNCHANGED transfers
    /\ UNCHANGED backupVars
    /\ UNCHANGED sweeps

\* cleanupSyncedAuditPhotos(auditId): the blobs of the audit's uploaded photos are
\* cleared.
cleanupSyncedAuditPhotos(a) ==
    [p \in Photos |->
        IF PhotoExists(p) /\ photo[p].audit = a /\ photo[p].st = "uploaded"
        THEN deletePhotoBlob(photo, p)[p] ELSE photo[p]]

\* await cleanupSyncedAuditPhotos(audit.id) settles (a failure is only logged);
\* sync_success and { success: true } to the batch loop: results.synced++.
CleanupBlobs(r) ==
    /\ spc[r] = "cleanup"
    /\ photo' = cleanupSyncedAuditPhotos(Head(pending[r]))
    /\ NextAudit(r, Tail(pending[r]), "synced")
    /\ UNCHANGED <<syncResult, submitted, lastReturn>>
    /\ UNCHANGED <<auditStatus, openAudit>>
    /\ UNCHANGED queueVars
    /\ UNCHANGED netVars
    /\ UNCHANGED dbVars
    /\ UNCHANGED transfers
    /\ UNCHANGED backupVars
    /\ UNCHANGED sweeps

\* await new Promise(resolve => setTimeout(resolve, delay)) settles; attempt++.
Backoff(r) ==
    /\ spc[r] = "backoff"
    /\ attempt' = [attempt EXCEPT ![r] = @ + 1]
    /\ delay' = [delay EXCEPT ![r] = 0]
    /\ spc' = [spc EXCEPT ![r] = "photos"]
    /\ UNCHANGED <<isSyncing, pending, anySynced, failed, results, pendingAudits,
                   payload>>
    /\ UNCHANGED <<syncResult, submitted, lastReturn>>
    /\ UNCHANGED <<auditStatus, photo>>
    /\ UNCHANGED pageVars
    /\ UNCHANGED queueVars
    /\ UNCHANGED netVars
    /\ UNCHANGED dbVars
    /\ UNCHANGED transfers
    /\ UNCHANGED backupVars
    /\ UNCHANGED sweeps

\* ------------------------------------------------------------ user actions
FreeAudits == {a \in Audits : auditStatus[a] = "absent"}

\* New Audit page: createAudit(data) adds the record with status 'draft', then
\* router.push(`/audit/${audit.id}`).
createAudit(a) ==
    /\ openAudit = 0
    /\ a \in FreeAudits
    /\ \A b \in FreeAudits : a <= b
    /\ Cardinality(Audits \ FreeAudits) < MaxCreated
    /\ auditStatus' = [auditStatus EXCEPT ![a] = "draft"]
    /\ openAudit' = a
    /\ UNCHANGED <<submitWait, successShown>>
    /\ UNCHANGED photo
    /\ UNCHANGED queueVars
    /\ UNCHANGED syncVars
    /\ UNCHANGED netVars
    /\ UNCHANGED dbVars
    /\ UNCHANGED transfers
    /\ UNCHANGED backupVars
    /\ UNCHANGED sweeps

\* Dashboard: onClick={() => audit.status !== 'synced' && handleContinueAudit(id)}
handleContinueAudit(a) ==
    /\ openAudit = 0
    /\ AuditExists(a)
    /\ auditStatus[a] # "synced"
    /\ openAudit' = a
    /\ UNCHANGED <<submitWait, successShown>>
    /\ UNCHANGED <<auditStatus, photo>>
    /\ UNCHANGED queueVars
    /\ UNCHANGED syncVars
    /\ UNCHANGED netVars
    /\ UNCHANGED dbVars
    /\ UNCHANGED transfers
    /\ UNCHANGED backupVars
    /\ UNCHANGED sweeps

\* router.push('/') from the execution page, the review page or its success view:
\* the page is unmounted and its state is gone.
BackToHome ==
    /\ openAudit # 0
    /\ openAudit' = 0
    /\ submitWait' = 0
    /\ successShown' = FALSE
    /\ UNCHANGED <<auditStatus, photo>>
    /\ UNCHANGED queueVars
    /\ UNCHANGED syncVars
    /\ UNCHANGED netVars
    /\ UNCHANGED dbVars
    /\ UNCHANGED transfers
    /\ UNCHANGED backupVars
    /\ UNCHANGED sweeps

\* The status handleResponseChange / updateItemResponse writes with the response.
ResponseStatusKeep(old) == IF old \in {"completed", "synced"} THEN old ELSE "in_progress"
ResponseStatus(old) == "in_progress"

\* handleResponseChange: updateAudit(audit.id, {responses, status: 'in_progress'}).
handleResponseChange(a) ==
    /\ OnExecutionPage(a)
    /\ AuditExists(a)
    /\ auditStatus' = updateAudit(a, ResponseStatus(auditStatus[a]))
    /\ LeaveReview
    /\ UNCHANGED <<photo, openAudit>>
    /\ UNCHANGED queueVars
    /\ UNCHANGED syncVars
    /\ UNCHANGED netVars
    /\ UNCHANGED dbVars
    /\ UNCHANGED transfers
    /\ UNCHANGED backupVars
    /\ UNCHANGED sweeps

\* Review page handleSubmit, its button shown and not loading:
\* updateAudit(audit.id, {status: 'completed'}), then if (online) await
\* syncPendingAudits().  A call that returns at once brings synced == 0.
handleSubmit(a) ==
    /\ openAudit = a
    /\ AuditExists(a)
    /\ submitWait = 0
    /\ ~successShown
    /\ auditStatus' = updateAudit(a, "completed")
    /\ IF online
       THEN /\ SyncCall(online)
            /\ submitWait' = IF SyncStarts(online) THEN FreeRun ELSE 0
       ELSE /\ UNCHANGED syncVars
            /\ UNCHANGED submitWait
    /\ UNCHANGED <<photo, openAudit, successShown>>
    /\ UNCHANGED queueVars
    /\ UNCHANGED netVars
    /\ UNCHANGED dbVars
    /\ UNCHANGED transfers
    /\ UNCHANGED backupVars
    /\ UNCHANGED sweeps

\* handlePhotoCapture: savePhoto(...), then if (navigator.onLine) queuePhotoUpload.
handlePhotoCapture(a) ==
    /\ OnExecutionPage(a)
    /\ FreePhotos # {}
    /\ photo' = [photo EXCEPT ![NextPhotoId] = savePhoto(a)]
    /\ IF online THEN queuePhotoUpload(<<NextPhotoId>>) ELSE UNCHANGED queueVars
    /\ LeaveReview
    /\ UNCHANGED <<auditStatus, openAudit>>
    /\ UNCHANGED syncVars
    /\ UNCHANGED netVars
    /\ UNCHANGED dbVars
    /\ UNCHANGED transfers
    /\ UNCHANGED backupVars
    /\ UNCHANGED sweeps

\* handlePhotoDelete: deletePhoto(photoId).
handlePhotoDelete(p) ==
    /\ PhotoExists(p)
    /\ OnExecutionPage(photo[p].audit)
    /\ photo' = [photo EXCEPT ![p] = [@ EXCEPT !.st = "deleted", !.blob = FALSE]]
    /\ LeaveReview
    /\ UNCHANGED <<auditStatus, openAudit>>
    /\ UNCHANGED queueVars
    /\ UNCHANGED syncVars
    /\ UNCHANGED netVars
    /\ UNCHANGED dbVars
    /\ UNCHANGED transfers
    /\ UNCHANGED backupVars
    /\ UNCHANGED sweeps

\* A syncPendingAudits() call from the service worker's SYNC_AUDITS message or the
\* sync button: it may come in any state.
syncPendingAudits ==
    /\ SyncCall(online)
    /\ UNCHANGED <<auditStatus, photo>>
    /\ UNCHANGED pageVars
    /\ UNCHANGED queueVars
    /\ UNCHANGED netVars
    /\ UNCHANGED dbVars
    /\ UNCHANGED transfers
    /\ UNCHANGED backupVars
    /\ UNCHANGED sweeps

\* ------------------------------------------------------------ connectivity
\* window 'offline' event: wasOffline = true.
GoOffline ==
    /\ online
    /\ online' = FALSE
    /\ wasOffline' = TRUE
    /\ UNCHANGED sweepTimers
    /\ UNCHANGED <<auditStatus, photo>>
    /\ UNCHANGED pageVars
    /\ UNCHANGED queueVars
    /\ UNCHANGED syncVars
    /\ UNCHANGED dbVars
    /\ UNCHANGED transfers
    /\ UNCHANGED backupVars
    /\ UNCHANGED sweeps

\* window 'online' event: the upload service arms its 2 s timer if (wasOffline) and
\* clears the flag; setupAutoSync's listener calls syncPendingAudits().
GoOnline ==
    /\ ~online
    /\ wasOffline => sweepTimers < MaxTimers
    /\ online' = TRUE
    /\ sweepTimers' = IF wasOffline THEN sweepTimers + 1 ELSE sweepTimers
    /\ wasOffline' = FALSE
    /\ SyncCall(TRUE)
    /\ UNCHANGED <<auditStatus, photo>>
    /\ UNCHANGED pageVars
    /\ UNCHANGED queueVars
    /\ UNCHANGED dbVars
    /\ UNCHANGED transfers
    /\ UNCHANGED backupVars
    /\ UNCHANGED sweeps

\* ------------------------------------------------------------ specification
Init ==
    /\ online \in BOOLEAN
    /\ wasOffline = ~online
    /\ sweepTimers = 0
    /\ openAudit = 0
    /\ submitWait = 0
    /\ successShown = FALSE
    /\ auditStatus = [a \in Audits |-> "absent"]
    /\ photo = [p \in Photos |-> NoPhoto]
    /\ uploadQueue = <<>>
    /\ isUploading = FALSE
    /\ wpc = [w \in Workers |-> "idle"]
    /\ cur = [w \in Workers |-> NoTask]
    /\ promise = [t \in Tasks |-> "none"]
    /\ attempts = [t \in Tasks |-> 0]
    /\ anyFailure = FALSE
    /\ isSyncing = FALSE
    /\ spc = [r \in Runs |-> "idle"]
    /\ pending = [r \in Runs |-> <<>>]
    /\ attempt = [r \in Runs |-> 1]
    /\ anySynced = [r \in Runs |-> FALSE]
    /\ failed = [r \in Runs |-> 0]
    /\ results = [r \in Runs |-> NoResults]
    /\ pendingAudits = [r \in Runs |-> <<>>]
    /\ delay = [r \in Runs |-> 0]
    /\ payload = [r \in Runs |-> [photos |-> <<>>, skipped |-> 0]]
    /\ syncResult = [a \in Audits |-> FALSE]
    /\ submitted = [a \in Audits |-> "never"]
    /\ lastReturn = [ret |-> "none", online |-> TRUE, busy |-> FALSE]
    /\ audits = [a \in Audits |-> NoAudit]
    /\ calls = [c \in Calls |-> NoCall]
    /\ sweeps = [s \in Sweeps |-> NoSweep]
    /\ transfers = [p \in Photos |-> 0]
    /\ backupTimer = 0
    /\ isBackingUp = FALSE
    /\ saving = 0
    /\ autoBackups = [k \in BackupCalls |-> NoAutoBackup]

UserNext ==
    \/ \E a \in Audits : createAudit(a)
    \/ \E a \in Audits : handleContinueAudit(a)
    \/ BackToHome
    \/ \E a \in Audits : handleResponseChange(a)
    \/ \E a \in Audits : handleSubmit(a)
    \/ \E a \in Audits : handlePhotoCapture(a)
    \/ \E p \in Photos : handlePhotoDelete(p)
    \/ \E a \in Audits : retryFailedUploads(a)
    \/ syncPendingAudits

NetNext ==
    \/ GoOffline
    \/ GoOnline
    \/ retryAllPendingUploads

WorkerNext ==
    \/ \E w \in Workers : UpdateStatusUploading(w)
    \/ \E w \in Workers, ok \in BOOLEAN : UploadPhotoToDrive(w, ok)
    \/ \E w \in Workers : UpdateStatusUploaded(w)
    \/ \E w \in Workers : UpdateStatusPending(w)
    \/ \E w \in Workers : RetryDelay(w)
    \/ \E w \in Workers : UpdateStatusFailed(w)

SyncNext ==
    \/ \E r \in Runs : FetchPending(r)
    \/ \E r \in Runs, ok \in SUBSET Photos : GetPhotos(r, ok)
    \/ \E r \in Runs, ok \in BOOLEAN : SubmitAudit(r, ok)
    \/ \E r \in Runs : MarkAuditSynced(r)
    \/ \E r \in Runs : CleanupBlobs(r)
    \/ \E r \in Runs : Backoff(r)

Next == UserNext \/ NetNext \/ WorkerNext \/ SyncNext

Spec == Init /\ [][Next]_vars

\* ------------------------------------------------ Auto-Backup (autoBackup.js)
backupRest == <<wasOffline, sweepTimers, openAudit, submitWait, successShown,
                auditStatus, photo, uploadQueue, isUploading, wpc, cur, promise,
                attempts, anyFailure, isSyncing, spc, pending, attempt, anySynced,
                failed, results, pendingAudits, delay, payload, syncResult,
                submitted, lastReturn, audits, calls, sweeps, transfers>>

\* The calls of startAutoBackup are numbered in the order they are made.
NextBackupCall(k) ==
    /\ autoBackups[k].initial = "none"
    /\ autoBackups[k].interval = "none"
    /\ ~autoBackups[k].stopped
    /\ \A j \in BackupCalls : j < k => autoBackups[j] # NoAutoBackup

\* startAutoBackup(audit, getLatestData): without a Drive folder nothing is armed
\* and the stop function is () => {}; else initialTimer = setTimeout(..., 30 s),
\* backupTimer = setInterval(..., BACKUP_INTERVAL), and the stop function is
\* returned.  A call without folder is kept as initial "off".
startAutoBackup(k, folder) ==
    /\ NextBackupCall(k)
    /\ IF folder
       THEN /\ autoBackups' = [autoBackups EXCEPT ![k].initial = "armed",
                                                  ![k].interval = "armed"]
            /\ backupTimer' = k
       ELSE /\ autoBackups' = [autoBackups EXCEPT ![k].initial = "off",
                                                  ![k].interval = "off"]
            /\ UNCHANGED backupTimer
    /\ UNCHANGED <<isBackingUp, saving, online>>
    /\ UNCHANGED backupRest

\* clearTimeout(initialTimer); if (backupTimer) { clearInterval(backupTimer) }:
\* the timeout is the one of call k, the interval is the one the module variable
\* holds.
StopTimers(k) ==
    [j \in BackupCalls |->
        [autoBackups[j] EXCEPT
            !.initial = IF j = k /\ @ = "armed" THEN "cleared" ELSE @,
            !.interval = IF j = backupTimer /\ @ = "armed" THEN "cleared" ELSE @,
            !.stopped = @ \/ j = k]]

\* The stop function startAutoBackup call k returned is invoked.
stopAutoBackup(k) ==
    /\ autoBackups[k].initial # "none"
    /\ IF autoBackups[k].initial = "off"
       THEN /\ autoBackups' = [autoBackups EXCEPT ![k].stopped = TRUE]
            /\ UNCHANGED backupTimer
       ELSE /\ autoBackups' = StopTimers(k)
            /\ backupTimer' = 0
    /\ UNCHANGED <<isBackingUp, saving, online>>
    /\ UNCHANGED backupRest

\* saveBackup(...) up to its first await, called from a timer callback of call k:
\* null at once if (isBackingUp) or if (!navigator.onLine), else isBackingUp =
\* true and the token and the POST are awaited.
saveBackup(k) ==
    IF isBackingUp \/ ~online
    THEN UNCHANGED <<isBackingUp, saving>>
    ELSE /\ isBackingUp' = TRUE
         /\ saving' = k

\* The 30 s timeout of call k fires: getLatestData(), saveBackup(...).
InitialTimerFires(k) ==
    /\ autoBackups[k].initial = "armed"
    /\ autoBackups' = [autoBackups EXCEPT ![k].initial = "fired",
                                          ![k].fired = @ + 1]
    /\ saveBackup(k)
    /\ UNCHANGED <<backupTimer, online>>
    /\ UNCHANGED backupRest

\* The interval of call k fires: getLatestData(), saveBackup(...).
IntervalFires(k) ==
    /\ autoBackups[k].interval = "armed"
    /\ autoBackups[k].fired < MaxFirings
    /\ autoBackups' = [autoBackups EXCEPT ![k].fired = @ + 1]
    /\ saveBackup(k)
    /\ UNCHANGED <<backupTimer, online>>
    /\ UNCHANGED backupRest

\* The POST to /api/audit/backup settles: ok, lastBackupTime is set and
\* result.backupFileId returned, else the error is caught and null returned;
\* finally { isBackingUp = false }; the callback keeps a new id: if (newBackupId)
\* backupFileId = newBackupId.
SaveBackupSettles(ok) ==
    /\ saving # 0
    /\ ok => online
    /\ isBackingUp' = FALSE
    /\ saving' = 0
    /\ autoBackups' = [autoBackups EXCEPT
                          ![saving].backupFileId = IF ok THEN 1 ELSE @]
    /\ UNCHANGED <<backupTimer, online>>
    /\ UNCHANGED backupRest

\* navigator.onLine changes while an audit page with auto-backup is open.
BackupConnectivity ==
    /\ online' = ~online
    /\ UNCHANGED backupVars
    /\ UNCHANGED backupRest

AutoBackupNext ==
    \/ \E k \in BackupCalls, folder \in BOOLEAN : startAutoBackup(k, folder)
    \/ \E k \in BackupCalls : stopAutoBackup(k)
    \/ \E k \in BackupCalls : InitialTimerFires(k)
    \/ \E k \in BackupCalls : IntervalFires(k)
    \/ \E ok \in BOOLEAN : SaveBackupSettles(ok)
    \/ BackupConnectivity

SpecAutoBackup == Init /\ [][AutoBackupNext]_vars

\* The Sync Engine with the audit pages and the connectivity events: audits are
\* created, edited, submitted and synced; no photo is captured, so the sweep the
\* 'online' timer starts finds nothing to queue.
SyncEngineNext ==
    \/ \E a \in Audits : createAudit(a)
    \/ \E a \in Audits : handleContinueAudit(a)
    \/ BackToHome
    \/ \E a \in Audits : handleResponseChange(a)
    \/ \E a \in Audits : handleSubmit(a)
    \/ syncPendingAudits
    \/ GoOffline
    \/ GoOnline
    \/ retryAllPendingUploads
    \/ SyncNext

SpecSync == Init /\ [][SyncEngineNext]_vars

\* The same where the store may fail the read a batch begins with.
SyncGuardNext ==
    \/ SyncEngineNext
    \/ \E r \in Runs : GetPendingAuditsThrows(r)

SpecSyncGuard == Init /\ [][SyncGuardNext]_vars

\* The home page with MaxAudits audits stored, each completed (submitted while
\* offline) or still in progress.
InitBatch ==
    /\ online \in BOOLEAN
    /\ wasOffline = ~online
    /\ sweepTimers = 0
    /\ openAudit = 0
    /\ submitWait = 0
    /\ successShown = FALSE
    /\ auditStatus \in [Audits -> {"in_progress", "completed"}]
    /\ photo = [p \in Photos |-> NoPhoto]
    /\ uploadQueue = <<>>
    /\ isUploading = FALSE
    /\ wpc = [w \in Workers |-> "idle"]
    /\ cur = [w \in Workers |-> NoTask]
    /\ promise = [t \in Tasks |-> "none"]
    /\ attempts = [t \in Tasks |-> 0]
    /\ anyFailure = FALSE
    /\ isSyncing = FALSE
    /\ spc = [r \in Runs |-> "idle"]
    /\ pending = [r \in Runs |-> <<>>]
    /\ attempt = [r \in Runs |-> 1]
    /\ anySynced = [r \in Runs |-> FALSE]
    /\ failed = [r \in Runs |-> 0]
    /\ results = [r \in Runs |-> NoResults]
    /\ pendingAudits = [r \in Runs |-> <<>>]
    /\ delay = [r \in Runs |-> 0]
    /\ payload = [r \in Runs |-> [photos |-> <<>>, skipped |-> 0]]
    /\ syncResult = [a \in Audits |-> FALSE]
    /\ submitted = [a \in Audits |-> "never"]
    /\ lastReturn = [ret |-> "none", online |-> TRUE, busy |-> FALSE]
    /\ audits = [a \in Audits |-> NoAudit]
    /\ calls = [c \in Calls |-> NoCall]
    /\ sweeps = [s \in Sweeps |-> NoSweep]
    /\ transfers = [p \in Photos |-> 0]
    /\ backupTimer = 0
    /\ isBackingUp = FALSE
    /\ saving = 0
    /\ autoBackups = [k \in BackupCalls |-> NoAutoBackup]

\* The Sync Engine over several stored audits, with the pages that edit and
\* submit them and the connectivity events.
BatchNext ==
    \/ \E a \in Audits : handleContinueAudit(a)
    \/ BackToHome
    \/ \E a \in Audits : handleResponseChange(a)
    \/ \E a \in Audits : handleSubmit(a)
    \/ syncPendingAudits
    \/ GoOffline
    \/ GoOnline
    \/ retryAllPendingUploads
    \/ SyncNext

SpecBatch == InitBatch /\ [][BatchNext]_vars

\* The execution page of audit 1, already begun.
InitQueue ==
    /\ online \in BOOLEAN
    /\ wasOffline = ~online
    /\ sweepTimers = 0
    /\ openAudit = 1
    /\ submitWait = 0
    /\ successShown = FALSE
    /\ auditStatus = [a \in Audits |-> "in_progress"]
    /\ photo = [p \in Photos |-> NoPhoto]
    /\ uploadQueue = <<>>
    /\ isUploading = FALSE
    /\ wpc = [w \in Workers |-> "idle"]
    /\ cur = [w \in Workers |-> NoTask]
    /\ promise = [t \in Tasks |-> "none"]
    /\ attempts = [t \in Tasks |-> 0]
    /\ anyFailure = FALSE
    /\ isSyncing = FALSE
    /\ spc = [r \in Runs |-> "idle"]
    /\ pending = [r \in Runs |-> <<>>]
    /\ attempt = [r \in Runs |-> 1]
    /\ anySynced = [r \in Runs |-> FALSE]
    /\ failed = [r \in Runs |-> 0]
    /\ results = [r \in Runs |-> NoResults]
    /\ pendingAudits = [r \in Runs |-> <<>>]
    /\ delay = [r \in Runs |-> 0]
    /\ payload = [r \in Runs |-> [photos |-> <<>>, skipped |-> 0]]
    /\ syncResult = [a \in Audits |-> FALSE]
    /\ submitted = [a \in Audits |-> "never"]
    /\ lastReturn = [ret |-> "none", online |-> TRUE, busy |-> FALSE]
    /\ audits = [a \in Audits |-> NoAudit]
    /\ calls = [c \in Calls |-> NoCall]
    /\ sweeps = [s \in Sweeps |-> NoSweep]
    /\ transfers = [p \in Photos |-> 0]
    /\ backupTimer = 0
    /\ isBackingUp = FALSE
    /\ saving = 0
    /\ autoBackups = [k \in BackupCalls |-> NoAutoBackup]

\* The Upload Queue on the execution page while connectivity stays as it is:
\* photos are captured, deleted and retried by hand, and the worker runs.
UploadQueueNext ==
    \/ \E a \in Audits : handlePhotoCapture(a)
    \/ \E p \in Photos : handlePhotoDelete(p)
    \/ \E a \in Audits : retryFailedUploads(a)
    \/ WorkerNext

SpecQueue == InitQueue /\ [][UploadQueueNext]_vars

\* The page is reloaded (or the app closed and opened again): the module is
\* evaluated anew, let uploadQueue = []; let isUploading = false, and the worker
\* loop of the old page is gone with its pending promises.  The store is kept.
AppReload ==
    /\ uploadQueue' = <<>>
    /\ isUploading' = FALSE
    /\ wpc' = [w \in Workers |-> "idle"]
    /\ cur' = [w \in Workers |-> NoTask]
    /\ UNCHANGED <<promise, attempts, anyFailure>>
    /\ UNCHANGED storeVars
    /\ UNCHANGED pageVars
    /\ UNCHANGED syncVars
    /\ UNCHANGED netVars
    /\ UNCHANGED dbVars
    /\ UNCHANGED transfers
    /\ UNCHANGED backupVars
    /\ UNCHANGED sweeps

UploadQueueReloadNext ==
    \/ UploadQueueNext
    \/ AppReload

SpecQueueReload == InitQueue /\ [][UploadQueueReloadNext]_vars

\* The same where every await of a running worker eventually settles: an
\* upload attempt, a store operation and the inter-retry timer all return.
SpecQueueFair == InitQueue /\ [][UploadQueueNext]_vars /\ WF_vars(WorkerNext)

\* The Upload Queue while connectivity comes and goes.  No audit is completed
\* here, so the batch an 'online' event starts ends at its fetch.
UploadQueueNetNext ==
    \/ UploadQueueNext
    \/ GoOffline
    \/ GoOnline
    \/ retryAllPendingUploads
    \/ \E r \in Runs : FetchPending(r)

SpecQueueNet == InitQueue /\ [][UploadQueueNetNext]_vars

\* The Upload Queue of lib/backgroundUpload.js on the execution page.
LegacyWorkerNext ==
    \/ \E w \in Workers : LegacyUpdateStatusUploading(w)
    \/ \E w \in Workers, ok \in BOOLEAN : LegacyUploadPhotoToDrive(w, ok)
    \/ \E w \in Workers : LegacyUpdateStatusUploaded(w)
    \/ \E w \in Workers : LegacyDeletePhotoBlob(w)
    \/ \E w \in Workers : LegacyUpdateStatusFailed(w)

LegacyQueueNext ==
    \/ \E a \in Audits : handlePhotoCapture(a)
    \/ \E p \in Photos : handlePhotoDelete(p)
    \/ LegacyWorkerNext

SpecLegacy == InitQueue /\ [][LegacyQueueNext]_vars

\* submitAudit on what the photos store can hold.  A record keeps its Drive
\* reference through later status writes, and loses its blob to deletePhotoBlob;
\* a second queued task for a photo re-marks it after either.
PhotoRecords ==
    {rec \in [st : {"pending_upload", "uploading", "uploaded", "failed"},
              audit : {1}, blob : BOOLEAN, ref : BOOLEAN] :
        rec.st = "uploaded" => rec.ref}

\* A completed audit with its photos, the dashboard open.
InitSubmit ==
    /\ online \in BOOLEAN
    /\ wasOffline = ~online
    /\ sweepTimers = 0
    /\ openAudit = 0
    /\ submitWait = 0
    /\ successShown = FALSE
    /\ auditStatus = [a \in Audits |-> IF a = 1 THEN "completed" ELSE "absent"]
    /\ photo \in [Photos -> PhotoRecords \cup {NoPhoto}]
    /\ \A p \in Photos, q \in Photos : (p < q /\ photo[q] # NoPhoto) => photo[p] # NoPhoto
    /\ uploadQueue = <<>>
    /\ isUploading = FALSE
    /\ wpc = [w \in Workers |-> "idle"]
    /\ cur = [w \in Workers |-> NoTask]
    /\ promise = [t \in Tasks |-> "none"]
    /\ attempts = [t \in Tasks |-> 0]
    /\ anyFailure = FALSE
    /\ isSyncing = FALSE
    /\ spc = [r \in Runs |-> "idle"]
    /\ pending = [r \in Runs |-> <<>>]
    /\ attempt = [r \in Runs |-> 1]
    /\ anySynced = [r \in Runs |-> FALSE]
    /\ failed = [r \in Runs |-> 0]
    /\ results = [r \in Runs |-> NoResults]
    /\ pendingAudits = [r \in Runs |-> <<>>]
    /\ delay = [r \in Runs |-> 0]
    /\ payload = [r \in Runs |-> NoPayload]
    /\ syncResult = [a \in Audits |-> FALSE]
    /\ submitted = [a \in Audits |-> "never"]
    /\ lastReturn = [ret |-> "none", online |-> TRUE, busy |-> FALSE]
    /\ audits = [a \in Audits |-> NoAudit]
    /\ calls = [c \in Calls |-> NoCall]
    /\ sweeps = [s \in Sweeps |-> NoSweep]
    /\ transfers = [p \in Photos |-> 0]
    /\ backupTimer = 0
    /\ isBackingUp = FALSE
    /\ saving = 0
    /\ autoBackups = [k \in BackupCalls |-> NoAutoBackup]

SubmitNext ==
    \/ syncPendingAudits
    \/ SyncNext

SpecSubmit == InitSubmit /\ [][SubmitNext]_vars

\* The whole path of one device, online throughout: audits are created and
\* filled, photos captured and uploaded by the queue, the audit submitted and
\* synced.  The user acts between batches, not while one is executing.
InitOnline == Init /\ online

NoBatch == \A r \in Runs : spc[r] = "idle"

EndToEndNext ==
    \/ \E a \in Audits : NoBatch /\ createAudit(a)
    \/ \E a \in Audits : NoBatch /\ handleContinueAudit(a)
    \/ NoBatch /\ BackToHome
    \/ \E a \in Audits : NoBatch /\ handleResponseChange(a)
    \/ \E a \in Audits : NoBatch /\ handlePhotoCapture(a)
    \/ \E a \in Audits : NoBatch /\ handleSubmit(a)
    \/ WorkerNext
    \/ SyncNext

SpecEndToEnd == InitOnline /\ [][EndToEndNext]_vars

\* The reconnection sweep over a store left by earlier sessions: two audits,
\* photos of either in any status, with or without blob, the device offline and
\* the dashboard open.
SweepRecords ==
    {rec \in [st : {"pending_upload", "failed", "uploaded"},
              audit : Audits, blob : BOOLEAN, ref : BOOLEAN] :
        rec.ref = (rec.st = "uploaded")}

\* Photo keys are given out in order; one key is left for the tasks of a second sweep.
StoredPhotos(ph) == {p \in Photos : ph[p] # NoPhoto}

InitSweep ==
    /\ online = FALSE
    /\ wasOffline = TRUE
    /\ sweepTimers = 0
    /\ openAudit = 0
    /\ submitWait = 0
    /\ successShown = FALSE
    /\ auditStatus \in [Audits -> {"in_progress", "synced"}]
    /\ photo \in [Photos -> SweepRecords \cup {NoPhoto}]
    /\ \E n \in 0..(MaxPhotos - 1) : StoredPhotos(photo) = 1..n
    /\ uploadQueue = <<>>
    /\ isUploading = FALSE
    /\ wpc = [w \in Workers |-> "idle"]
    /\ cur = [w \in Workers |-> NoTask]
    /\ promise = [t \in Tasks |-> "none"]
    /\ attempts = [t \in Tasks |-> 0]
    /\ anyFailure = FALSE
    /\ isSyncing = FALSE
    /\ spc = [r \in Runs |-> "idle"]
    /\ pending = [r \in Runs |-> <<>>]
    /\ attempt = [r \in Runs |-> 1]
    /\ anySynced = [r \in Runs |-> FALSE]
    /\ failed = [r \in Runs |-> 0]
    /\ results = [r \in Runs |-> NoResults]
    /\ pendingAudits = [r \in Runs |-> <<>>]
    /\ delay = [r \in Runs |-> 0]
    /\ payload = [r \in Runs |-> NoPayload]
    /\ syncResult = [a \in Audits |-> auditStatus[a] = "synced"]
    /\ submitted = [a \in Audits |-> IF auditStatus[a] = "synced" THEN "ok" ELSE "never"]
    /\ lastReturn = [ret |-> "none", online |-> TRUE, busy |-> FALSE]
    /\ audits = [a \in Audits |-> NoAudit]
    /\ calls = [c \in Calls |-> NoCall]
    /\ sweeps = [s \in Sweeps |-> NoSweep]
    /\ transfers = [p \in Photos |-> 0]
    /\ backupTimer = 0
    /\ isBackingUp = FALSE
    /\ saving = 0
    /\ autoBackups = [k \in BackupCalls |-> NoAutoBackup]

SweepNext ==
    \/ GoOffline
    \/ GoOnline
    \/ retryAllPendingUploads
    \/ \E r \in Runs : FetchPending(r)
    \/ WorkerNext

SpecSweep == InitSweep /\ [][SweepNext]_vars

\* Two seconds after a reconnection: the device is online, the sweep timer is
\* armed, the execution page of audit 1 is open, and the store holds at most one
\* photo of an earlier session.
InitSweepSteps ==
    /\ online = TRUE
    /\ wasOffline = FALSE
    /\ sweepTimers = 1
    /\ openAudit = 1
    /\ submitWait = 0
    /\ successShown = FALSE
    /\ auditStatus \in [Audits -> {"in_progress", "synced"}]
    /\ auditStatus[1] = "in_progress"
    /\ photo \in [Photos -> SweepRecords \cup {NoPhoto}]
    /\ \E n \in 0..1 : StoredPhotos(photo) = 1..n
    /\ uploadQueue = <<>>
    /\ isUploading = FALSE
    /\ wpc = [w \in Workers |-> "idle"]
    /\ cur = [w \in Workers |-> NoTask]
    /\ promise = [t \in Tasks |-> "none"]
    /\ attempts = [t \in Tasks |-> 0]
    /\ anyFailure = FALSE
    /\ isSyncing = FALSE
    /\ spc = [r \in Runs |-> "idle"]
    /\ pending = [r \in Runs |-> <<>>]
    /\ attempt = [r \in Runs |-> 1]
    /\ anySynced = [r \in Runs |-> FALSE]
    /\ failed = [r \in Runs |-> 0]
    /\ results = [r \in Runs |-> NoResults]
    /\ pendingAudits = [r \in Runs |-> <<>>]
    /\ delay = [r \in Runs |-> 0]
    /\ payload = [r \in Runs |-> [photos |-> <<>>, skipped |-> 0]]
    /\ syncResult = [a \in Audits |-> auditStatus[a] = "synced"]
    /\ submitted = [a \in Audits |-> IF auditStatus[a] = "synced" THEN "ok" ELSE "never"]
    /\ lastReturn = [ret |-> "none", online |-> TRUE, busy |-> FALSE]
    /\ audits = [a \in Audits |-> NoAudit]
    /\ calls = [c \in Calls |-> NoCall]
    /\ sweeps = [s \in Sweeps |-> NoSweep]
    /\ transfers = [p \in Photos |-> 0]
    /\ backupTimer = 0
    /\ isBackingUp = FALSE
    /\ saving = 0
    /\ autoBackups = [k \in BackupCalls |-> NoAutoBackup]

\* The sweep running await by await beside the captures and the worker.
SweepStepsNext ==
    \/ \E a \in Audits : handlePhotoCapture(a)
    \/ SweepStepNext
    \/ WorkerNext

SpecSweepSteps == InitSweepSteps /\ [][SweepStepsNext]_vars

\* db.js on the record of one audit, its calls interleaving at their awaits: the
\* pages write responses and status, the Sync Engine marks the audit synced.
StoreRecords ==
    {[NoAudit EXCEPT !.status = st] : st \in {"in_progress", "completed"}}

InitStore ==
    /\ online = TRUE
    /\ wasOffline = FALSE
    /\ sweepTimers = 0
    /\ openAudit = 1
    /\ submitWait = 0
    /\ successShown = FALSE
    /\ audits \in [Audits -> StoreRecords \cup {NoAudit}]
    /\ audits[1] # NoAudit
    /\ \A a \in Audits : a > 1 => audits[a] = NoAudit
    /\ auditStatus = [a \in Audits |-> audits[a].status]
    /\ photo = [p \in Photos |-> NoPhoto]
    /\ uploadQueue = <<>>
    /\ isUploading = FALSE
    /\ wpc = [w \in Workers |-> "idle"]
    /\ cur = [w \in Workers |-> NoTask]
    /\ promise = [t \in Tasks |-> "none"]
    /\ attempts = [t \in Tasks |-> 0]
    /\ anyFailure = FALSE
    /\ isSyncing = FALSE
    /\ spc = [r \in Runs |-> "idle"]
    /\ pending = [r \in Runs |-> <<>>]
    /\ attempt = [r \in Runs |-> 1]
    /\ anySynced = [r \in Runs |-> FALSE]
    /\ failed = [r \in Runs |-> 0]
    /\ results = [r \in Runs |-> NoResults]
    /\ pendingAudits = [r \in Runs |-> <<>>]
    /\ delay = [r \in Runs |-> 0]
    /\ payload = [r \in Runs |-> NoPayload]
    /\ syncResult = [a \in Audits |-> FALSE]
    /\ submitted = [a \in Audits |-> "never"]
    /\ lastReturn = [ret |-> "none", online |-> TRUE, busy |-> FALSE]
    /\ calls = [c \in Calls |-> NoCall]
    /\ sweeps = [s \in Sweeps |-> NoSweep]
    /\ transfers = [p \in Photos |-> 0]
    /\ backupTimer = 0
    /\ isBackingUp = FALSE
    /\ saving = 0
    /\ autoBackups = [k \in BackupCalls |-> NoAutoBackup]

StoreNext ==
    \/ \E c \in Calls, a \in Audits, u \in CallerUpdates : updateAuditCall(c, a, u)
    \/ \E c \in Calls, a \in Audits, r \in Results, now \in Times :
           markAuditSynced(c, a, r, now)
    \/ \E c \in Calls, now \in Times : GetAudit(c, now)
    \/ \E c \in Calls : PutAudit(c)

SpecStore == InitStore /\ [][StoreNext]_vars

\* One stored audit without photos yet, and the store calls that touch it:
\* deleteAudit, savePhoto and updatePhotoStatus.
InitCascade ==
    /\ InitStore
    /\ audits[1].status = "in_progress"
    /\ audits[1].responses = 0

CascadeStatuses == {"uploading", "uploaded", "failed"}

CascadeNext ==
    \/ \E c \in Calls, a \in Audits : AuditExists(a) /\ deleteAudit(c, a)
    \/ \E c \in Calls : deleteAuditPhotos(c)
    \/ \E c \in Calls : deletePhoto(c)
    \/ \E c \in Calls : DeleteAuditRecord(c)
    \/ \E a \in Audits : AuditExists(a) /\ SavePhoto(a)
    \/ \E c \in Calls, p \in Photos, st \in CascadeStatuses :
           PhotoExists(p) /\ CallUpdatePhotoStatus(c, p, st)
    \/ \E c \in Calls : GetPhoto(c)
    \/ \E c \in Calls : PutPhoto(c)

SpecCascade == InitCascade /\ [][CascadeNext]_vars

\* The read-then-write calls of db.js on any id, stored or not, beside the calls
\* that add and remove records.
NotFoundNext ==
    \/ \E c \in Calls, a \in Audits : updateAuditCall(c, a, [status |-> "completed"])
    \/ \E c \in Calls : GetAudit(c, 1)
    \/ \E c \in Calls : PutAudit(c)
    \/ \E c \in Calls, p \in Photos : CallUpdatePhotoStatus(c, p, "uploaded")
    \/ \E c \in Calls : GetPhoto(c)
    \/ \E c \in Calls : PutPhoto(c)
    \/ \E a \in Audits : AuditExists(a) /\ SavePhoto(a)
    \/ \E c \in Calls, a \in Audits : AuditExists(a) /\ deleteAudit(c, a)
    \/ \E c \in Calls : deleteAuditPhotos(c)
    \/ \E c \in Calls : deletePhoto(c)
    \/ \E c \in Calls : DeleteAuditRecord(c)

SpecNotFound == InitCascade /\ [][NotFoundNext]_vars

\* ------------------------------------------------------------------ claims
ActiveRuns == {r \in Runs : spc[r] # "idle"}

InQueue(t) == \E i \in 1..Len(uploadQueue) : uploadQueue[i].id = t

\* The photo of the queued task t.
QueuedPhoto(t) ==
    uploadQueue[CHOOSE i \in 1..Len(uploadQueue) : uploadQueue[i].id = t].photo

\* The worker run w ends in this step.
RunEnds(w) == wpc[w] # "idle" /\ wpc'[w] = "idle"

\* The blob of photo p is cleared in this step and the record stays in the store.
BlobCleared(p) ==
    /\ photo[p].blob
    /\ ~photo'[p].blob
    /\ photo'[p].st \notin {"absent", "deleted"}

\* draft -> in_progress -> completed -> synced
StatusRank(s) ==
    CASE s = "absent" -> 0
      [] s = "draft" -> 1
      [] s = "in_progress" -> 2
      [] s = "completed" -> 3
      [] s = "synced" -> 4

\* C1: at most one sync batch executes at any time, and a syncPendingAudits call
\* made while a batch is executing returns its zero counts at once: it starts no
\* run, so it fetches and submits nothing.
C1_NoDoubleSubmit ==
    /\ Cardinality(ActiveRuns) <= 1
    /\ isSyncing <=> ActiveRuns # {}
    /\ lastReturn.busy => lastReturn.ret = "busy"

\* A call returned while a batch was at its submit, and the batch is still there.
C1_Witness ==
    /\ lastReturn.ret = "busy"
    /\ lastReturn.busy
    /\ \E r \in Runs : spc[r] = "submit"

\* C2: once one submit for an audit has succeeded, the Sync Engine never invokes
\* submit for that audit again.
C2_ExactlyOnceSubmit == \A a \in Audits : submitted[a] # "again"

\* C3: the blob of an uploaded photo is never cleared while the status of its
\* audit is not synced; it is still there right after the upload succeeds.
C3_BlobRetainedUntilSynced ==
    [][\A p \in Photos :
          (BlobCleared(p) /\ photo'[p].st = "uploaded")
              => auditStatus'[photo[p].audit] = "synced"]_vars

\* C4: a blob is cleared only if the photo's status is uploaded and its audit is
\* synced; a photo in status pending_upload, uploading or failed never has its
\* blob cleared.
C4_BlobClearedOnlyIfUploaded ==
    [][\A p \in Photos :
          BlobCleared(p) => /\ photo[p].st = "uploaded"
                            /\ auditStatus[photo[p].audit] = "synced"]_vars

\* C5: the status of an audit only moves forward along
\* draft -> in_progress -> completed -> synced.
C5_StatusMonotonic ==
    [][\A a \in Audits :
          StatusRank(auditStatus'[a]) >= StatusRank(auditStatus[a])]_vars

\* C6: the worker calls uploadPhotoToDrive for a task at most MAX_RETRIES times,
\* and it gives a task up only after exactly MAX_RETRIES attempts: at that step
\* the photo's status becomes failed and the task is out of the queue.
C6_BoundedRetry ==
    /\ [](\A t \in Tasks :
            /\ attempts[t] <= MAX_RETRIES
            /\ promise[t] = "rejected" => attempts[t] = MAX_RETRIES /\ ~InQueue(t))
    /\ [][\A t \in Tasks :
            (promise[t] = "pending" /\ promise'[t] = "rejected")
                => /\ InQueue(t)
                   /\ photo'[QueuedPhoto(t)].st = "failed"]_vars

\* A task was given up after its third attempt and its photo is marked failed.
C6_Witness ==
    \E t \in Tasks, p \in Photos :
        /\ promise[t] = "rejected"
        /\ attempts[t] = MAX_RETRIES
        /\ photo[p].st = "failed"

\* C7: while no upload attempt has failed, uploads complete in the order the
\* photos were queued: a task completes only when every task queued before it
\* has completed or has lost its photo, and none queued after it has completed;
\* and when the worker stops, every queued photo still in the store is done.
C7_FifoOrder ==
    /\ [][\A t \in Tasks :
            (promise[t] = "pending" /\ promise'[t] = "resolved" /\ ~anyFailure')
                => \A u \in Tasks :
                      /\ u < t => \/ promise[u] = "resolved"
                                  \/ InQueue(u) /\ ~PhotoExists(QueuedPhoto(u))
                      /\ u > t => promise[u] # "resolved"]_vars
    /\ []((/\ ~anyFailure
           /\ \A w \in Workers : wpc[w] = "idle"
           /\ \A p \in Photos : photo[p].st # "deleted")
              => \A t \in Tasks : promise[t] \in {"none", "resolved"})

\* Three photos were queued and uploaded without a failure.
C7_Witness ==
    /\ ~anyFailure
    /\ \A t \in 1..3 : promise[t] = "resolved"
    /\ \A p \in 1..3 : photo[p].st = "uploaded"

\* C8: a failure while one photo is processed, its deletion while queued
\* included, never keeps the worker from the other tasks: a run ends only when
\* no task of another photo is left in the queue.
C8_FailureIsolation ==
    [][\A w \in Workers :
          RunEnds(w) => \A i \in 1..Len(uploadQueue') :
                            uploadQueue'[i].photo = cur[w].photo]_vars

\* C9: the promise of every queued task is settled exactly once; no task leaves
\* the queue and no worker run ends with a promise unsettled.
C9_OneOutcomePerTask ==
    /\ [](\A t \in Tasks :
            /\ promise[t] # "twice"
            /\ promise[t] = "pending" => InQueue(t))
    /\ [][\A w \in Workers :
            RunEnds(w) => \A t \in Tasks : promise'[t] # "pending"]_vars

\* C10, as stated: whenever connectivity is false a syncPendingAudits call
\* returns {synced: 0, failed: 0, offline: true}.
C10_OfflineAlwaysFlagged == ~lastReturn.online => lastReturn.ret = "offline"

\* C10, with the order of the two early returns: a call made while connectivity
\* is false starts no run, so it submits nothing; it returns offline: true
\* exactly when no batch is in progress, and the bare zero counts otherwise.
C10_OfflineNoOp ==
    ~lastReturn.online =>
        /\ lastReturn.ret \in {"offline", "busy"}
        /\ lastReturn.ret = "busy" <=> lastReturn.busy

\* A call returned offline: true while a completed audit waited to be synced.
C10_Witness ==
    /\ lastReturn.ret = "offline"
    /\ ~lastReturn.online
    /\ \E a \in Audits : auditStatus[a] = "completed"

\* The photos of audit a that have no blob and are not uploaded.
LostPhotos(a) ==
    {p \in getAuditPhotos(a) : ~photo[p].blob /\ photo[p].st # "uploaded"}

\* C11: at submit time a photo with no blob and a status other than uploaded has
\* no entry in the photos list of the payload, is counted in skippedPhotos, and
\* does not make the submission fail: the route accepts the list when nothing
\* else was skipped.
C11_LostPhotoExcluded ==
    \A r \in Runs :
        (spc[r] = "submit" /\ LostPhotos(Head(pending[r])) # {}) =>
            LET a == Head(pending[r])
                lost == Cardinality(LostPhotos(a))
            IN /\ Len(payload[r].photos) <= Cardinality(getAuditPhotos(a)) - lost
               /\ payload[r].skipped >= lost
               /\ payload[r].skipped = lost => ServerAccepts(payload[r].photos)

NewTaskIds == {t \in Tasks : promise[t] = "none" /\ promise'[t] = "pending"}

Requeued(p) ==
    Cardinality({i \in 1..Len(uploadQueue') :
                    uploadQueue'[i].id \in NewTaskIds /\ uploadQueue'[i].photo = p})

\* The photos the reconnection sweep owes a new task: status failed, blob
\* retained, audit not synced.
FailedRetained ==
    {p \in Photos : /\ PhotoExists(p)
                    /\ photo[p].st = "failed"
                    /\ photo[p].blob
                    /\ auditStatus[photo[p].audit] # "synced"}

C14_SweepBeforeSync ==
    [][(~online /\ online' /\ sweepTimers' > 0) =>
           \A r \in Runs : ~(spc[r] = "idle" /\ spc'[r] # "idle")]_vars

\* C15: while the device is offline the worker begins no upload for a queued task
\* and no batch begins a submission.
C15_NothingStartedOffline ==
    [][/\ \A w \in Workers : (wpc[w] # "upload" /\ wpc'[w] = "upload") => online
       /\ \A r \in Runs : (spc[r] # "submit" /\ spc'[r] = "submit") => online]_vars

\* The fields of an audits record other than its timestamps.
SameButTimestamps(x, y) ==
    \A f \in DOMAIN x \ {"syncedAt", "updatedAt"} : x[f] = y[f]

\* C16: the put of a markAuditSynced(id, r) call leaves the record with status
\* synced and syncResult r; and when the call read the record a markAuditSynced(id,
\* r) had left (a second call), its put changes nothing but timestamps.
C16_MarkSyncedIdempotent ==
    [][\A c \in Calls :
          (calls[c].pc = "put" /\ calls'[c].pc = "done"
              /\ calls[c].fn = "markAuditSynced") =>
              LET id == calls[c].id
                  r == calls[c].updates.syncResult
              IN /\ audits'[id].status = "synced"
                 /\ audits'[id].syncResult = r
                 /\ (calls[c].audit.status = "synced" /\ calls[c].audit.syncResult = r)
                        => SameButTimestamps(audits'[id], calls[c].audit)]_vars

\* Two markAuditSynced(1, r) calls have run one after the other.
C16_Witness ==
    \E c \in Calls, d \in Calls :
        /\ c # d
        /\ calls[c].pc = "done" /\ calls[c].fn = "markAuditSynced"
        /\ calls[d].pc = "done" /\ calls[d].fn = "markAuditSynced"
        /\ calls[c].updatedAudit.syncResult = calls[d].updatedAudit.syncResult
        /\ calls[c].audit.status = "completed"
        /\ calls[d].audit = calls[c].updatedAudit
        /\ audits[1] = calls[d].updatedAudit
        /\ audits[1].updatedAt # calls[c].updatedAudit.updatedAt

\* C18: no update is lost when two store updates of one record interleave at
\* their awaits: a put changes only the fields its caller passed (and
\* updatedAt); what another call wrote to the other fields meanwhile stays.
C18_NoLostUpdate ==
    [][\A c \in Calls :
          (calls[c].pc = "put" /\ calls'[c].pc = "done") =>
              \A f \in DOMAIN NoAudit \ (DOMAIN calls[c].updates \cup {"updatedAt"}) :
                  audits'[calls[c].id][f] = audits[calls[c].id][f]]_vars

\* C17: after failed attempt k, 1 <= k < maxRetries, the engine waits 2^k seconds
\* before attempt k + 1 (2 s after attempt 1, 4 s after attempt 2); after the last
\* failed attempt it does not wait.
C17_BackoffGrowth ==
    /\ [](\A r \in Runs :
            /\ spc[r] = "backoff" =>
                   /\ attempt[r] \in 1..(maxRetries - 1)
                   /\ delay[r] = (2 ^ attempt[r]) * 1000
                   /\ attempt[r] = 1 => delay[r] = 2000
                   /\ attempt[r] = 2 => delay[r] = 4000
            /\ spc[r] # "backoff" => delay[r] = 0)
    /\ [][\A r \in Runs :
            /\ (spc[r] # "backoff" /\ spc'[r] = "backoff") => attempt'[r] = attempt[r]
            /\ (spc[r] = "backoff" /\ spc'[r] # "backoff") =>
                   /\ attempt'[r] = attempt[r] + 1
                   /\ spc'[r] = "photos"
            /\ (spc[r] \in {"submit", "mark"} /\ attempt[r] = maxRetries) =>
                   spc'[r] # "backoff"]_vars

\* The engine is waiting 4 s after the second failed attempt.
C17_Witness ==
    \E r \in Runs :
        /\ spc[r] = "backoff"
        /\ attempt[r] = 2
        /\ delay[r] = 4000
        /\ submitted[Head(pending[r])] = "never"

\* The batch gives up on its current audit in this step: results.failed++.
GivesUp(r) == failed'[r] = failed[r] + 1

\* C20: when every submit attempt for an audit fails, syncAuditWithRetry gives up
\* after exactly maxRetries attempts, neither earlier nor later; the batch counts
\* the audit as failed and the step writes nothing to the audits store, so an
\* audit that was completed stays completed and is pending for the next batch.
C20_FinalFailure ==
    /\ [](\A r \in Runs : attempt[r] <= maxRetries)
    /\ [][\A r \in Runs :
            /\ GivesUp(r) =>
                   /\ attempt[r] = maxRetries
                   /\ auditStatus' = auditStatus
                   /\ syncResult' = syncResult
                   /\ anySynced'[r] = anySynced[r]
                   /\ auditStatus[Head(pending[r])] = "completed" =>
                          Head(pending[r]) \in
                              {a \in Audits : auditStatus'[a] = "completed"}
            /\ (spc[r] = "submit" /\ spc'[r] \notin {"submit", "mark"}) =>
                   IF attempt[r] = maxRetries
                   THEN GivesUp(r)
                   ELSE spc'[r] = "backoff" /\ failed'[r] = failed[r]]_vars

\* A batch ended after three failed submits: one audit failed, none synced, the
\* audit still completed.
C20_Witness ==
    \E r \in Runs, a \in Audits :
        /\ spc[r] = "idle"
        /\ ~isSyncing
        /\ failed[r] = 1
        /\ ~anySynced[r]
        /\ submitted[a] = "never"
        /\ auditStatus[a] = "completed"
        /\ getPendingAudits = <<a>>

\* The processQueue invocations that have entered their loop and not left it.
ActiveWorkers == {w \in Workers : wpc[w] # "idle"}

\* C19: at most one processQueue loop is active at any time, isUploading is set
\* exactly while one is, and so at most one upload is in flight, however the
\* captures, manual retries and reconnection sweeps call queuePhotoUpload.
C19_SingleWorker ==
    /\ Cardinality(ActiveWorkers) <= 1
    /\ isUploading <=> ActiveWorkers # {}
    /\ Cardinality({w \in Workers : wpc[w] = "upload"}) <= 1

\* An upload is in flight with more tasks queued behind it, a sweep among the
\* callers: the later queuePhotoUpload calls found the loop active.
C19_Witness ==
    /\ \E w \in Workers : wpc[w] = "upload"
    /\ Len(uploadQueue) = MaxTasks
    /\ isUploading
    /\ sweepTimers = 0
    /\ ~wasOffline
    /\ \E i \in 2..Len(uploadQueue) : uploadQueue[i].photo = uploadQueue[1].photo

\* C21: an audit's stored status is synced only after a submit call for that
\* audit has succeeded: a synced audit has a successful submit behind it, and the
\* step that writes synced is the one that follows the successful submit of the
\* batch working on that audit.
C21_SyncedAfterSubmit ==
    /\ [](\A a \in Audits : auditStatus[a] = "synced" => submitted[a] # "never")
    /\ [][\A a \in Audits :
            (auditStatus[a] # "synced" /\ auditStatus'[a] = "synced") =>
                /\ submitted[a] # "never"
                /\ \E r \in Runs : spc[r] = "mark" /\ Head(pending[r]) = a]_vars

\* An audit was submitted with success exactly once and is synced.
C21_Witness ==
    \E a \in Audits :
        /\ auditStatus[a] = "synced"
        /\ submitted[a] = "ok"
        /\ syncResult[a]

\* C22: a photo whose status is uploaded carries its Drive reference, in every
\* state; the step that makes a status uploaded writes the reference with it.
C22_UploadedHasReference ==
    /\ [](\A p \in Photos : photo[p].st = "uploaded" => photo[p].ref)
    /\ [][\A p \in Photos :
            (photo[p].st # "uploaded" /\ photo'[p].st = "uploaded") => photo'[p].ref]_vars

\* A photo was uploaded at its second attempt; another one is still pending
\* without a reference.
C22_Witness ==
    \E p \in Photos, q \in Photos, t \in Tasks :
        /\ photo[p].st = "uploaded" /\ photo[p].ref /\ photo[p].blob
        /\ promise[t] = "resolved" /\ attempts[t] = 2
        /\ photo[q].st = "pending_upload" /\ ~photo[q].ref

\* C23: when a deleteAudit(id) call completes, the audit is absent from the
\* store and no photo with auditId = id remains in the store, whatever other
\* store operations on that audit were interleaved with the call.
C23_CascadeDelete ==
    [][\A c \in Calls :
          (calls[c].fn = "deleteAudit" /\ calls[c].pc = "delAudit"
              /\ calls'[c].pc = "done") =>
              /\ audits'[calls[c].id] = NoAudit
              /\ \A p \in Photos :
                     ~(photo'[p].st \notin {"absent", "deleted"}
                          /\ photo'[p].audit = calls[c].id)]_vars

\* A deleteAudit call has completed on an audit that had photos.
C23_Reached ==
    \E c \in Calls, p \in Photos :
        /\ calls[c].fn = "deleteAudit" /\ calls[c].pc = "done"
        /\ photo[p].st = "deleted" /\ photo[p].audit = calls[c].id

\* The ids of the per-audit entries of a result, in order.
EntryIds(entries) == [i \in 1..Len(entries) |-> entries[i].id]

\* The entries of a result that report success.
Successes(entries) == {i \in 1..Len(entries) : entries[i].success}

\* C24: in one syncPendingAudits() batch the final failure of an audit is
\* followed by the first attempt of the next fetched audit; while the batch runs
\* the entries pushed so far followed by the audits still to process are the
\* fetched list; and when the batch returns, synced + failed is the number of
\* audits fetched, with exactly one entry per fetched audit in processing order.
C24_BatchAccounting ==
    /\ [](\A r \in Runs :
            /\ results[r].synced + failed[r] = Len(results[r].audits)
            /\ results[r].synced = Cardinality(Successes(results[r].audits))
            /\ spc[r] \notin {"idle", "fetch"} =>
                   EntryIds(results[r].audits) \o pending[r] = pendingAudits[r])
    /\ [][\A r \in Runs :
            /\ (spc[r] = "fetch" /\ spc'[r] # "fetch") =>
                   /\ results'[r] = NoResults /\ failed'[r] = 0
                   /\ pending'[r] = getPendingAudits
            /\ (spc[r] \notin {"idle", "fetch"} /\ failed'[r] = failed[r] + 1
                    /\ Len(pending[r]) > 1) =>
                   /\ spc'[r] = "photos"
                   /\ attempt'[r] = 1
                   /\ pending'[r] = Tail(pending[r])
            /\ (spc[r] \notin {"idle", "fetch"} /\ spc'[r] = "idle") =>
                   /\ results'[r].synced + failed'[r] = Len(pendingAudits[r])
                   /\ EntryIds(results'[r].audits) = pendingAudits[r]]_vars

\* A batch of two audits has returned: the first failed after its last attempt,
\* the second was attempted and synced.
C24_Witness ==
    \E r \in Runs :
        /\ spc[r] = "idle"
        /\ results[r] = [synced |-> 1,
                         audits |-> <<[id |-> 1, success |-> FALSE],
                                      [id |-> 2, success |-> TRUE]>>]
        /\ failed[r] = 1
        /\ auditStatus[1] = "completed" /\ auditStatus[2] = "synced"

\* C25: whenever the engine calls submitAudit for an audit (the step in which
\* getAuditPhotos has resolved, at the first attempt and at each retry), the
\* stored status of that audit is completed.
C25_SubmitOnlyCompleted ==
    [][\A r \in Runs :
          (spc[r] = "photos" /\ spc'[r] = "submit") =>
              auditStatus[Head(pending[r])] = "completed"]_vars

\* C26: within a batch the engine works on one audit at a time, the head of the
\* audits still to process, in the order getPendingAudits returned them. It moves
\* to the next audit only in the step that settles the current one (synced, or
\* failed at attempt maxRetries with no backoff wait left), and the next audit
\* then starts at attempt 1; every retry and every backoff wait keeps the current
\* audit.
C26_SequentialAudits ==
    /\ [](\A r \in Runs :
            spc[r] \notin {"idle", "fetch"} =>
                /\ pending[r] # <<>>
                /\ \E n \in 0..Len(pendingAudits[r]) :
                       pending[r] = SubSeq(pendingAudits[r], n + 1, Len(pendingAudits[r]))
                /\ spc[r] = "backoff" => attempt[r] < maxRetries)
    /\ [][\A r \in Runs :
            /\ (spc[r] = "fetch" /\ spc'[r] # "fetch") =>
                   /\ pending'[r] = getPendingAudits
                   /\ attempt'[r] = 1
            /\ (spc[r] \notin {"idle", "fetch"} /\ pending'[r] # pending[r]) =>
                   /\ pending'[r] = Tail(pending[r])
                   /\ spc[r] # "backoff"
                   /\ results'[r].audits =
                          Append(results[r].audits,
                                 [id |-> Head(pending[r]),
                                  success |-> spc[r] = "cleanup"])
                   /\ spc[r] # "cleanup" => attempt[r] = maxRetries
                   /\ attempt'[r] = 1
                   /\ spc'[r] \in {"photos", "idle"}
            /\ (spc[r] \notin {"idle", "fetch"} /\ attempt'[r] # attempt[r]
                    /\ pending'[r] = pending[r]) =>
                   /\ spc[r] = "backoff"
                   /\ attempt'[r] = attempt[r] + 1]_vars

\* The first audit of a batch was given up after its third attempt and the batch
\* is at the first attempt of the second audit.
C26_Witness ==
    \E r \in Runs :
        /\ spc[r] = "submit"
        /\ attempt[r] = 1
        /\ pendingAudits[r] = <<1, 2>>
        /\ pending[r] = <<2>>
        /\ results[r].audits = <<[id |-> 1, success |-> FALSE]>>

\* q is an initial part of the queue r.
IsPrefix(q, r) == Len(q) <= Len(r) /\ q = SubSeq(r, 1, Len(q))

\* The catch of worker w takes its retry branch in this step.
RetryStep(w) == wpc[w] \in {"mark", "upload", "record"} /\ wpc'[w] = "requeue"

\* Re-insertion: the failed task leaves the head and the same task, with
\* retryCount + 1, is the new tail.
Reinserted(w) ==
    /\ Head(uploadQueue) = cur[w]
    /\ uploadQueue' = Append(Tail(uploadQueue), [cur[w] EXCEPT !.retryCount = @ + 1])

\* The queue is only pushed at its tail and shifted at its head, and a worker
\* that takes a task takes the head: the tasks ahead of a re-inserted task are
\* attempted before it.
HeadFirst ==
    /\ IsPrefix(uploadQueue, uploadQueue') \/ IsPrefix(Tail(uploadQueue), uploadQueue')
    /\ \A w \in Workers :
           (cur'[w] # cur[w] /\ cur'[w] # NoTask) => cur'[w] = Head(uploadQueue')

\* C27: when an attempt fails and attempts remain, the task moves from the head
\* to the tail of the queue with retryCount + 1, the photo record is then written
\* back to pending_upload before the inter-retry wait, and the tasks that were
\* behind it are attempted before it is attempted again.
C27_RetryReinsertion ==
    [][/\ \A w \in Workers :
            /\ RetryStep(w) => Reinserted(w)
            /\ (wpc[w] = "requeue" /\ wpc'[w] # "requeue") =>
                   /\ photo'[cur[w].photo].st = "pending_upload"
                   /\ wpc'[w] = "delay"
       /\ HeadFirst]_vars

\* The same without the write to the photo record.
C27_QueueOrderOnly ==
    [][/\ \A w \in Workers : RetryStep(w) => Reinserted(w)
       /\ HeadFirst]_vars

\* The same with the write required only for a photo that is still stored.
C27_StoredPhotoSetBack ==
    [][\A w \in Workers :
          (wpc[w] = "requeue" /\ wpc'[w] # "requeue" /\ PhotoExists(cur[w].photo)) =>
              /\ photo'[cur[w].photo].st = "pending_upload"
              /\ wpc'[w] = "delay"]_vars

\* C28: when every upload attempt and store operation of the worker returns,
\* the Upload Queue eventually is empty with isUploading false and stays so
\* once no more photos are enqueued.
C28_QueueDrains == <>[](uploadQueue = <<>> /\ ~isUploading)

\* What the stored records say of photo p now: its audit is not synced, its
\* status is pending_upload or failed, and it has a blob.
SweepEligible(p) ==
    /\ PhotoExists(p)
    /\ auditStatus[photo[p].audit] # "synced"
    /\ photo[p].st \in {"pending_upload", "failed"}
    /\ photo[p].blob

\* The count a running sweep holds after this step: totalRetried, or the value
\* it returns.
SweepCountNext(s) ==
    IF sweeps'[s].pc = "idle" THEN sweeps'[s].ret ELSE sweeps'[s].totalRetried

\* The sweep s enqueues a photo in this step.
SweepEnqueues(s) == sweeps[s].pc = "compress" /\ Len(uploadQueue') = Len(uploadQueue) + 1

\* Each photo a sweep enqueues is, when it is enqueued, a photo of an audit that
\* is not synced, in status pending_upload or failed, with a blob.
C29_OnlyEligible ==
    [][\A s \in Sweeps :
          SweepEnqueues(s) => SweepEligible(Head(sweeps[s].pendingPhotos))]_vars

\* Each photo a sweep has picked and that still is such a photo is enqueued.
C29_EveryEligible ==
    [][\A s \in Sweeps :
          (sweeps[s].pc = "compress" /\ sweeps'[s] # sweeps[s]
              /\ SweepEligible(Head(sweeps[s].pendingPhotos))) => SweepEnqueues(s)]_vars

\* The count of a sweep grows by one with each photo it enqueues and not
\* otherwise, and the value returned is that count.
C29_ReturnsCount ==
    [][\A s \in Sweeps :
          (sweeps[s].pc \notin {"idle", "audits"} /\ sweeps'[s] # sweeps[s]) =>
              SweepCountNext(s) =
                  sweeps[s].totalRetried + (IF SweepEnqueues(s) THEN 1 ELSE 0)]_vars

\* C29: retryAllPendingUploads() enqueues exactly the photos of audits that are
\* not synced, in status pending_upload or failed, with a blob: none of a synced
\* audit, none in status uploading or uploaded, none without a blob; and it
\* returns the number of photos it enqueued.
C29_SweepSelection ==
    [][\A s \in Sweeps :
          /\ SweepEnqueues(s) => SweepEligible(Head(sweeps[s].pendingPhotos))
          /\ (sweeps[s].pc = "compress" /\ sweeps'[s] # sweeps[s]
                  /\ SweepEligible(Head(sweeps[s].pendingPhotos))) => SweepEnqueues(s)
          /\ (sweeps[s].pc \notin {"idle", "audits"} /\ sweeps'[s] # sweeps[s]) =>
                 SweepCountNext(s) =
                     sweeps[s].totalRetried + (IF SweepEnqueues(s) THEN 1 ELSE 0)]_vars

\* retryFailedUploads runs in this step: tasks are created and no photo record
\* is written.
ManualRetry == NewTaskIds # {} /\ photo' = photo

C31_NotFoundLeavesStore ==
    [][\A c \in Calls :
          /\ calls'[c].pc = "put" =>
                 /\ calls'[c].audit # NoAudit
                 /\ calls[c].pc = "get" => audits[calls[c].id] # NoAudit
          /\ calls'[c].pc = "putPhoto" =>
                 /\ calls'[c].updatedPhoto # NoPhoto
                 /\ calls[c].pc = "getPhoto" => PhotoExists(calls[c].id)
          /\ (calls[c].pc = "get" /\ calls'[c] # calls[c]
                  /\ audits[calls[c].id] = NoAudit) =>
                 /\ calls'[c].pc = "threw"
                 /\ audits' = audits /\ photo' = photo
          /\ (calls[c].pc = "getPhoto" /\ calls'[c] # calls[c]
                  /\ ~PhotoExists(calls[c].id)) =>
                 /\ calls'[c].pc = "threw"
                 /\ audits' = audits /\ photo' = photo
          /\ (calls[c].pc = "threw" /\ calls'[c] # calls[c]) =>
                 calls'[c].pc \in {"get", "getPhoto", "list"}]_vars

\* An updateAudit and an updatePhotoStatus have both thrown not-found on ids that
\* were never stored, and the stores hold no record under those ids.
C31_Witness ==
    \E c, d \in Calls :
        /\ calls[c].fn = "updateAudit" /\ calls[c].pc = "threw"
        /\ audits[calls[c].id] = NoAudit /\ calls[c].id = 2
        /\ calls[d].fn = "updatePhotoStatus" /\ calls[d].pc = "threw"
        /\ photo[calls[d].id].st = "absent"

\* C32: in every reachable state the upload queue holds at most one task per
\* photo id, whatever the interleaving of captures, automatic retries,
\* retryFailedUploads and reconnect sweeps.
C32_NoDuplicateEntries ==
    \A i, j \in 1..Len(uploadQueue) :
        uploadQueue[i].photo = uploadQueue[j].photo => i = j

\* C33: in every reachable state a non-empty upload queue has an active worker
\* loop (isUploading is true): no worker run ends, normally or by an exception,
\* with tasks left in the queue.
C33_NoStrandedTasks == uploadQueue # <<>> => isUploading

\* C34: whenever a syncPendingAudits() batch ends, by its return (the
\* no-pending-audits return included) or by an exception from the store, isSyncing
\* is false again; the flag is set only while a batch runs, and the call that
\* follows a batch ended by an exception, made with connectivity, starts a batch
\* instead of being skipped.
C34_GuardReleased ==
    [][/\ \A r \in Runs : (spc[r] # "idle" /\ spc'[r] = "idle") => ~isSyncing'
       /\ (\A r \in Runs : spc'[r] = "idle") => ~isSyncing'
       /\ (lastReturn.ret = "threw" /\ lastReturn' # lastReturn /\ online) =>
              /\ lastReturn'.ret = "started"
              /\ isSyncing' /\ spc'[1] = "fetch"]_vars

\* A batch has ended by the exception while a completed audit waits: the flag is
\* released and a call with connectivity would start a batch.
C34_Witness ==
    /\ lastReturn.ret = "threw"
    /\ ~isSyncing
    /\ SyncStarts(TRUE)
    /\ \E a \in Audits : auditStatus[a] = "completed"

\* C35: in every reachable state, after an app reload and after a worker run
\* ended by an exception too, every photo record in status uploading is the head
\* task of the queue of a currently active worker.
C35_UploadingHasWorker ==
    \A p \in Photos :
        photo[p].st = "uploading" =>
            /\ isUploading
            /\ uploadQueue # <<>>
            /\ Head(uploadQueue).photo = p
            /\ \E w \in Workers : wpc[w] # "idle" /\ cur[w].photo = p

\* The photos the payload of run r has an entry with a remote reference for.
Referenced(pl) == {pl.photos[i] : i \in 1..Len(pl.photos)} \ {Null}

\* The photos of audit a that hold a blob or a remote reference.
Recoverable(a) == {p \in getAuditPhotos(a) : photo[p].blob \/ photo[p].ref}

C37_TransferredAtMostOnce == \A p \in Photos : transfers[p] <= 1

\* C38: for any order of startAutoBackup calls and stop-function calls, once the
\* stop function a startAutoBackup call returned has been invoked, no timer created
\* by that call triggers a backup any more: none of its callbacks runs, and so
\* none starts a saveBackup that sends the audit data.
C38_NoBackupAfterStop ==
    [][\A k \in BackupCalls :
          autoBackups[k].stopped =>
              /\ autoBackups'[k].fired = autoBackups[k].fired
              /\ saving' = k => saving = k]_vars

\* The weaker reading: a callback of a stopped call may run, but sends nothing.
C38_NoBackupSentAfterStop ==
    [][\A k \in BackupCalls :
          autoBackups[k].stopped => (saving' = k => saving = k)]_vars

====
